---- MODULE Spec2Model ----
(***************************************************************************)
(* Inventory reconciliation: loader, normalizer, quality checker,          *)
(* duplicate filter, reconciler, reporter and the command-line driver.     *)
(*                                                                         *)
(* Representation.                                                         *)
(*   - A Python str is a sequence of one-character strings, so that        *)
(*     strip(), upper() and the regular expressions are computed and not   *)
(*     assumed.                                                            *)
(*   - A missing text cell (pandas NaN) is NaN, which is no string.        *)
(*   - A quantity cell is a record: IntCell, FloatCell (in hundredths),    *)
(*     StrCell (a cell of an object column) or NaNCell.                    *)
(*   - Optional[x] is None (<<>>) or Some(x) (<<x>>).                      *)
(*   - A DataFrame is the sequence of its rows; each row keeps its index   *)
(*     label in the field idx.                                             *)
(***************************************************************************)
EXTENDS Integers, Sequences, FiniteSets, TLC

VARIABLES
    pc,              \* position of the run
    df1, df2,        \* raw tables as load_snapshot returns them
    df1_norm, df2_norm,      \* normalize_dataframe's tables
    quality_issues,  \* run_all_checks' list
    df1_clean, df2_clean,    \* the tables after duplicate filtering
    results,         \* reconcile's list
    raised,          \* the exception that ended the run, or None
    mapped1, mapped2,        \* the renamed columns load_snapshot reports
    missing1, missing2,      \* the missing columns load_snapshot reports
    normalizations,  \* normalize_dataframe's second results
    report,          \* build_report's report, or None
    output_file,     \* what write_json wrote, or None
    exit_code,       \* what main returned, or None
    files,           \* the snapshot files on disk, by argument
    timestamp,       \* the generated_at a caller injects, or None
    outputs,         \* what each completed run of the stages wrote
    frames,          \* DataFrame objects, and which one a call got and returned
    float_qty1, float_qty2   \* the float maps load_snapshot reports

vars == <<pc, df1, df2, df1_norm, df2_norm, quality_issues,
          df1_clean, df2_clean, results, raised, mapped1, mapped2,
          missing1, missing2, normalizations, report, output_file, exit_code,
          files, timestamp, outputs, frames, float_qty1, float_qty2>>

----------------------------------------------------------------------------
(* Bounds of the model                                                     *)

\* rows of a table given to reconcile
MaxRows == 2
\* data rows of the two snapshot files of a run, together
MaxTotalRows == 3
\* data rows of a file of the runs of main and of the repeated runs
MaxFileRows == 1
\* runs over the same files
MaxRuns == 2
\* rows of a table given to normalize_dataframe alone
MaxNormalizerRows == 2
\* results and issues handed to build_report alone
MaxReportResults == 2
MaxReportIssues == 3
\* data rows of a file whose quantities are checked for their format
MaxQuantityRows == 2
\* rows of a table given to check_name_drift alone
MaxDriftRows == 2
\* rows of a table given to the date checks alone
MaxDateRows == 2
\* data rows of a file given to the per-row checks alone
MaxCheckRows == 2
\* rows of a table whose quantities can be missing, given to reconcile
MaxQuantityTableRows == 2
\* data rows of both snapshots together, where the counts of a report are compared
MaxCountRows == 4

----------------------------------------------------------------------------
(* Values                                                                  *)

None == <<>>
Some(x) == <<x>>

NaN == <<"NaN">>

IntCell(n) == [kind |-> "int", v |-> n]
FloatCell(h) == [kind |-> "float", h |-> h]
StrCell(s) == [kind |-> "str", s |-> s]
NaNCell == [kind |-> "nan"]

\* int(x) of a float in hundredths: the fractional part is dropped (towards zero)
TruncHundredths(h) == IF h >= 0 THEN h \div 100 ELSE -((-h) \div 100)

\* the characters of the model in ASCII order
Ascii ==
    <<" ", "-", ".", "/", "0", "1", "2", "3", "4", "5", "6", "7", "8", "9", "@",
      "A", "B", "C", "D", "E", "F", "G", "H", "I", "J", "K", "L", "M", "N", "O",
      "P", "Q", "R", "S", "T", "U", "V", "W", "X", "Y", "Z", "_",
      "a", "b", "c", "d", "e", "f", "g", "h", "i", "j", "k", "l", "m", "n", "o",
      "p", "q", "r", "s", "t", "u", "v", "w", "x", "y", "z">>

Ord(c) == CHOOSE i \in 1..Len(Ascii) : Ascii[i] = c

\* Python's < on str: lexicographic by code point
RECURSIVE StrLess(_, _)
StrLess(a, b) ==
    IF b = <<>> THEN FALSE
    ELSE IF a = <<>> THEN TRUE
    ELSE IF Head(a) = Head(b) THEN StrLess(Tail(a), Tail(b))
    ELSE Ord(Head(a)) < Ord(Head(b))

\* Python's < on (sku, location) tuples
KeyLess(k1, k2) ==
    \/ StrLess(k1[1], k2[1])
    \/ k1[1] = k2[1] /\ StrLess(k1[2], k2[2])

RECURSIVE Flatten(_)
Flatten(ss) == IF ss = <<>> THEN <<>> ELSE Head(ss) \o Flatten(Tail(ss))

----------------------------------------------------------------------------
(* Python str operations                                                   *)

Lowercase ==
    <<"a", "b", "c", "d", "e", "f", "g", "h", "i", "j", "k", "l", "m",
      "n", "o", "p", "q", "r", "s", "t", "u", "v", "w", "x", "y", "z">>
Uppercase ==
    <<"A", "B", "C", "D", "E", "F", "G", "H", "I", "J", "K", "L", "M",
      "N", "O", "P", "Q", "R", "S", "T", "U", "V", "W", "X", "Y", "Z">>
Digits == <<"0", "1", "2", "3", "4", "5", "6", "7", "8", "9">>

IsIn(c, chars) == \E i \in 1..Len(chars) : chars[i] = c
IndexIn(c, chars) == CHOOSE i \in 1..Len(chars) : chars[i] = c

IsDigit(c) == IsIn(c, Digits)
DigitVal(c) == IndexIn(c, Digits) - 1
IsSpace(c) == c \in {" ", "\t", "\n", "\r"}

UpperChar(c) == IF IsIn(c, Lowercase) THEN Uppercase[IndexIn(c, Lowercase)] ELSE c
LowerChar(c) == IF IsIn(c, Uppercase) THEN Lowercase[IndexIn(c, Uppercase)] ELSE c

\* s.upper(), s.lower()
Upper(s) == [i \in 1..Len(s) |-> UpperChar(s[i])]
Lower(s) == [i \in 1..Len(s) |-> LowerChar(s[i])]

RECURSIVE LStrip(_)
LStrip(s) == IF s # <<>> /\ IsSpace(Head(s)) THEN LStrip(Tail(s)) ELSE s
RECURSIVE RStrip(_)
RStrip(s) ==
    IF s # <<>> /\ IsSpace(s[Len(s)]) THEN RStrip(SubSeq(s, 1, Len(s) - 1)) ELSE s

\* s.strip()
Strip(s) == RStrip(LStrip(s))

\* str(x) of a text cell: a missing cell prints as nan
Str_nan == <<"n", "a", "n">>
Str(x) == IF x = NaN THEN Str_nan ELSE x

\* the decimal digits of n >= 0
RECURSIVE NatToStr(_)
NatToStr(n) ==
    IF n < 10 THEN <<Digits[n + 1]>>
    ELSE NatToStr(n \div 10) \o <<Digits[(n % 10) + 1]>>

\* str(n) of an int
IntToStr(n) == IF n < 0 THEN <<"-">> \o NatToStr(-n) ELSE NatToStr(n)

\* the value of a string of digits
RECURSIVE DigitsToNat(_)
DigitsToNat(s) ==
    IF s = <<>> THEN 0
    ELSE 10 * DigitsToNat(SubSeq(s, 1, Len(s) - 1)) + DigitVal(s[Len(s)])

AllDigits(s) == \A i \in 1..Len(s) : IsDigit(s[i])

\* str(x) of a float given in hundredths: 77.0, 5.5, 5.25, -5.0
FloatToStr(h) ==
    LET a == IF h < 0 THEN -h ELSE h
        frac == a % 100
        fs == IF frac % 10 = 0 THEN <<Digits[(frac \div 10) + 1]>>
              ELSE <<Digits[(frac \div 10) + 1], Digits[(frac % 10) + 1]>>
    IN (IF h < 0 THEN <<"-">> ELSE <<>>) \o NatToStr(a \div 100) \o <<".">> \o fs

\* str(x) of a quantity cell
CellToStr(cell) ==
    CASE cell.kind = "int" -> IntToStr(cell.v)
      [] cell.kind = "float" -> FloatToStr(cell.h)
      [] cell.kind = "str" -> cell.s
      [] OTHER -> Str_nan

\* position of the first c in s, 0 when there is none
FindChar(s, c) ==
    IF \E i \in 1..Len(s) : s[i] = c
    THEN CHOOSE i \in 1..Len(s) : s[i] = c /\ \A j \in 1..(i - 1) : s[j] # c
    ELSE 0

\* A decimal literal [sign]digits[.digits] with at most two decimals, in
\* hundredths; None when the text is no such number.
ParseDecimal(text) ==
    LET t == Strip(text)
        neg == t # <<>> /\ Head(t) = "-"
        u == IF neg THEN Tail(t) ELSE t
        dot == FindChar(u, ".")
        whole == IF dot = 0 THEN u ELSE SubSeq(u, 1, dot - 1)
        frac == IF dot = 0 THEN <<>> ELSE SubSeq(u, dot + 1, Len(u))
        ok == /\ whole # <<>> /\ AllDigits(whole) /\ AllDigits(frac)
              /\ Len(frac) <= 2
        mag == 100 * DigitsToNat(whole)
               + (IF Len(frac) = 0 THEN 0
                  ELSE IF Len(frac) = 1 THEN 10 * DigitsToNat(frac)
                  ELSE DigitsToNat(frac))
    IN IF ok THEN Some(IF neg THEN -mag ELSE mag) ELSE None

IsIntLiteral(text) ==
    ParseDecimal(text) # None /\ FindChar(Strip(text), ".") = 0

----------------------------------------------------------------------------
(* services/normalizer.py                                                  *)

\* re.match(r"^SKU\d{3}$", clean)
MatchesSkuNoHyphen(clean) ==
    /\ Len(clean) = 6
    /\ SubSeq(clean, 1, 3) = <<"S", "K", "U">>
    /\ AllDigits(SubSeq(clean, 4, 6))

normalize_sku_NoHyphen(sku) == IF sku = NaN THEN <<>> ELSE Upper(Strip(Str(sku)))
normalize_sku_LooseMatch(sku) ==
    IF sku = NaN THEN <<>>
    ELSE LET clean == Upper(Strip(Str(sku)))
         IN IF Len(clean) >= 3 /\ SubSeq(clean, 1, 3) = <<"S", "K", "U">>
            THEN SubSeq(clean, 1, 3) \o <<"-">> \o SubSeq(clean, 4, Len(clean))
            ELSE clean
normalize_sku(sku) ==
    IF sku = NaN THEN <<>>
    ELSE LET clean == Upper(Strip(Str(sku)))
         IN IF MatchesSkuNoHyphen(clean)
            THEN SubSeq(clean, 1, 3) \o <<"-">> \o SubSeq(clean, 4, Len(clean))
            ELSE clean

normalize_name(name) == IF name = NaN THEN <<>> ELSE Strip(Str(name))

normalize_location(location) == IF location = NaN THEN <<>> ELSE Strip(Str(location))

RoundHundredths(h) ==
    IF h >= 0 THEN (h + 50) \div 100 ELSE -((50 - h) \div 100)
CoerceQuantityRounded(cell) ==
    CASE cell.kind = "int" -> IntCell(cell.v)
      [] cell.kind = "float" -> IntCell(RoundHundredths(cell.h))
      [] cell.kind = "str" ->
            IF ParseDecimal(cell.s) = None THEN IntCell(0)
            ELSE IntCell(RoundHundredths(ParseDecimal(cell.s)[1]))
      [] OTHER -> IntCell(0)
\* pd.to_numeric(..., errors="coerce").fillna(0).astype(int) on one cell
CoerceQuantity(cell) ==
    CASE cell.kind = "int" -> IntCell(cell.v)
      [] cell.kind = "float" -> IntCell(TruncHundredths(cell.h))
      [] cell.kind = "str" ->
            IF ParseDecimal(cell.s) = None THEN IntCell(0)
            ELSE IntCell(TruncHundredths(ParseDecimal(cell.s)[1]))
      [] OTHER -> IntCell(0)

NormalizeRow(row) ==
    [row EXCEPT !.sku = normalize_sku(row.sku),
                !.name = normalize_name(row.name),
                !.location = normalize_location(row.location),
                !.quantity = CoerceQuantity(row.quantity)]

\* the index labels of the rows with Differs(raw row, normalized row)
ChangedRows(df, result, Differs(_, _)) ==
    Flatten([i \in 1..Len(df) |->
                IF Differs(df[i], result[i]) THEN <<df[i].idx>> ELSE <<>>])

\* normalize_dataframe(df): [result, normalizations]
normalize_dataframe(df) ==
    LET result == [i \in 1..Len(df) |-> NormalizeRow(df[i])]
        SkuDiffers(raw, norm) ==
            LET orig == Strip(Str(raw.sku))
            IN Upper(orig) # norm.sku \/ orig # norm.sku
        NameDiffers(raw, norm) == Str(raw.name) # norm.name
        LocationDiffers(raw, norm) == Str(raw.location) # norm.location
    IN [result |-> result,
        normalizations |->
            [sku_normalized |-> ChangedRows(df, result, SkuDiffers),
             name_trimmed |-> ChangedRows(df, result, NameDiffers),
             location_trimmed |-> ChangedRows(df, result, LocationDiffers)]]

\* DataFrame objects live in a store, a sequence indexed by object identity.
\* result = df.copy(): a new object with the rows of df
df_copy_Alias(objects, df) == [objects |-> objects, ref |-> df]
df_copy(objects, df) ==
    [objects |-> Append(objects, objects[df]), ref |-> Len(objects) + 1]

\* normalize_dataframe called with the object df: the column assignments
\* result["sku"] = ..., result["quantity"] = ... write into the object result
normalize_dataframe_call(objects, df) ==
    LET Assigned(copied, ret) ==
            [objects |-> [copied.objects EXCEPT ![copied.ref] = ret.result],
             result |-> copied.ref,
             normalizations |-> ret.normalizations]
        Normalized(copied) ==
            CHOOSE call \in {Assigned(copied, ret) :
                ret \in {normalize_dataframe(copied.objects[copied.ref])}} : TRUE
    IN CHOOSE call \in {Normalized(copied) : copied \in {df_copy(objects, df)}} : TRUE

----------------------------------------------------------------------------
(* services/reconciler.py                                                  *)

KeyOf(row) == <<row.sku, row.location>>

\* pd.isna on a quantity cell
IsNaCell(cell) == cell.kind = "nan"

\* int(value) on a quantity cell that is not NaN: None when it raises
IntOf(cell) ==
    CASE cell.kind = "int" -> Some(cell.v)
      [] cell.kind = "float" -> Some(TruncHundredths(cell.h))
      [] OTHER -> None

_safe_int(value) == IF IsNaCell(value) THEN None ELSE IntOf(value)

ReconciliationResult(sku, location, status, old_quantity, new_quantity, quantity_delta, old_name, new_name) ==
    [sku |-> sku, location |-> location, status |-> status,
     old_quantity |-> old_quantity, new_quantity |-> new_quantity,
     quantity_delta |-> quantity_delta,
     old_name |-> old_name, new_name |-> new_name]

\* (keep="first": the first occurrence of a key is not marked)
DuplicatedKeepFirst(df) ==
    [i \in 1..Len(df) |-> \E j \in 1..(i - 1) : KeyOf(df[j]) = KeyOf(df[i])]
\* df.duplicated(subset=key_cols, keep=False): the mask, one flag per row
duplicated(df) ==
    [i \in 1..Len(df) |->
        \E j \in 1..Len(df) : j # i /\ KeyOf(df[j]) = KeyOf(df[i])]

\* df[mask]
RECURSIVE BoolIndex(_, _)
BoolIndex(df, mask) ==
    IF df = <<>> THEN <<>>
    ELSE (IF Head(mask) THEN <<Head(df)>> ELSE <<>>)
         \o BoolIndex(Tail(df), Tail(mask))

Not(mask) == [i \in 1..Len(mask) |-> ~mask[i]]

find_duplicates(df) == BoolIndex(df, duplicated(df))

RECURSIVE SortedKeys(_)
SortedKeys(S) ==
    IF S = {} THEN <<>>
    ELSE LET m == CHOOSE k \in S : \A o \in S : o = k \/ KeyLess(k, o)
         IN <<m>> \o SortedKeys(S \ {m})

Keys(df) == {KeyOf(df[i]) : i \in 1..Len(df)}

RECURSIVE RowsWithKey(_, _)
RowsWithKey(df, k) ==
    IF df = <<>> THEN <<>>
    ELSE (IF KeyOf(Head(df)) = k THEN <<Head(df)>> ELSE <<>>)
         \o RowsWithKey(Tail(df), k)

\* One row of pd.merge(..., how="outer", suffixes=("_old", "_new"),
\* indicator=True): a side without the key has NaN in its columns.
MergedRow(k, merge, l, r) ==
    [sku |-> k[1], location |-> k[2], merge |-> merge,
     quantity_old |-> IF merge = "right_only" THEN NaNCell ELSE l.quantity,
     quantity_new |-> IF merge = "left_only" THEN NaNCell ELSE r.quantity,
     name_old |-> IF merge = "right_only" THEN NaN ELSE l.name,
     name_new |-> IF merge = "left_only" THEN NaN ELSE r.name]

\* (an inner join: the rows of a key that only one side has are dropped)
MergeRowsOfKeyInner(left, right, k) ==
    LET ls == RowsWithKey(left, k)
        rs == RowsWithKey(right, k)
    IN IF rs = <<>> \/ ls = <<>> THEN <<>>
       ELSE Flatten([i \in 1..Len(ls) |->
                       [j \in 1..Len(rs) |-> MergedRow(k, "both", ls[i], rs[j])]])
\* pd.merge on the key columns, how="outer": the union of the keys in
\* lexicographic order, every pairing of the rows that share a key
MergeRowsOfKey(left, right, k) ==
    LET ls == RowsWithKey(left, k)
        rs == RowsWithKey(right, k)
    IN IF rs = <<>> THEN [i \in 1..Len(ls) |-> MergedRow(k, "left_only", ls[i], ls[i])]
       ELSE IF ls = <<>> THEN [j \in 1..Len(rs) |-> MergedRow(k, "right_only", rs[j], rs[j])]
       ELSE Flatten([i \in 1..Len(ls) |->
                       [j \in 1..Len(rs) |-> MergedRow(k, "both", ls[i], rs[j])]])

OuterMerge(left, right) ==
    LET ks == SortedKeys(Keys(left) \cup Keys(right))
    IN Flatten([n \in 1..Len(ks) |-> MergeRowsOfKey(left, right, ks[n])])

\* reconcile's loop body, merge_status left_only / right_only
ClassifyOneSidedSwapped(row) ==
    IF row.merge = "left_only"
    THEN ReconciliationResult(row.sku, row.location, "added",
            None, _safe_int(row.quantity_old), None, None, Some(row.name_old))
    ELSE ReconciliationResult(row.sku, row.location, "removed",
            _safe_int(row.quantity_new), None, None, Some(row.name_new), None)
ClassifyOneSided(row) ==
    IF row.merge = "left_only"
    THEN ReconciliationResult(row.sku, row.location, "removed",
            _safe_int(row.quantity_old), None, None, Some(row.name_old), None)
    ELSE ReconciliationResult(row.sku, row.location, "added",
            None, _safe_int(row.quantity_new), None, None, Some(row.name_new))

\* reconcile's loop body, merge_status both
ClassifyBothNameSensitive(row) ==
    LET old_qty == _safe_int(row.quantity_old)
        new_qty == _safe_int(row.quantity_new)
        same == old_qty = new_qty /\ row.name_old = row.name_new
    IN ReconciliationResult(row.sku, row.location,
            IF same THEN "unchanged" ELSE "quantity_changed",
            old_qty, new_qty,
            IF old_qty # None /\ new_qty # None
            THEN Some(new_qty[1] - old_qty[1]) ELSE None,
            Some(row.name_old), Some(row.name_new))
ClassifyBoth(row) ==
    LET old_qty == _safe_int(row.quantity_old)
        new_qty == _safe_int(row.quantity_new)
    IN IF old_qty = new_qty
       THEN ReconciliationResult(row.sku, row.location, "unchanged",
               old_qty, new_qty, Some(0),
               Some(row.name_old), Some(row.name_new))
       ELSE ReconciliationResult(row.sku, row.location, "quantity_changed",
               old_qty, new_qty,
               IF old_qty # None /\ new_qty # None
               THEN Some(new_qty[1] - old_qty[1]) ELSE None,
               Some(row.name_old), Some(row.name_new))

Classify(row) ==
    IF row.merge \in {"left_only", "right_only"}
    THEN ClassifyOneSided(row)
    ELSE ClassifyBoth(row)

\* int(row["quantity"]) raises on NaN and on a non-numeric string
IntRaises(cell) == IsNaCell(cell) \/ IntOf(cell) = None

AddedShortcut(row) ==
    ReconciliationResult(row.sku, row.location, "added",
        None, IntOf(row.quantity), None, None, Some(row.name))
RemovedShortcut(row) ==
    ReconciliationResult(row.sku, row.location, "removed",
        IntOf(row.quantity), None, None, Some(row.name), None)

\* reconcile(df1, df2): [raised, results]
Returned(rs) == [raised |-> None, results |-> rs]
Raise(e) == [raised |-> Some(e), results |-> <<>>]

reconcile(t1, t2) ==
    IF t1 = <<>> /\ t2 = <<>> THEN Returned(<<>>)
    ELSE IF t1 = <<>>
    THEN IF \E i \in 1..Len(t2) : IntRaises(t2[i].quantity)
         THEN Raise("ValueError")
         ELSE Returned([i \in 1..Len(t2) |-> AddedShortcut(t2[i])])
    ELSE IF t2 = <<>>
    THEN IF \E i \in 1..Len(t1) : IntRaises(t1[i].quantity)
         THEN Raise("ValueError")
         ELSE Returned([i \in 1..Len(t1) |-> RemovedShortcut(t1[i])])
    ELSE LET merged == OuterMerge(t1, t2)
         IN Returned([i \in 1..Len(merged) |-> Classify(merged[i])])

----------------------------------------------------------------------------
(* services/quality_checker.py                                             *)

F_sku_location == <<"s", "k", "u", ",", "l", "o", "c", "a", "t", "i", "o", "n">>
F_quantity == <<"q", "u", "a", "n", "t", "i", "t", "y">>
F_sku == <<"s", "k", "u">>
F_name == <<"n", "a", "m", "e">>
F_location == <<"l", "o", "c", "a", "t", "i", "o", "n">>
F_last_counted == <<"l", "a", "s", "t", "_", "c", "o", "u", "n", "t", "e", "d">>
F_product_name == <<"p", "r", "o", "d", "u", "c", "t", "_", "n", "a", "m", "e">>
F_qty == <<"q", "t", "y">>
F_warehouse == <<"w", "a", "r", "e", "h", "o", "u", "s", "e">>
F_updated_at == <<"u", "p", "d", "a", "t", "e", "d", "_", "a", "t">>

\* the f-string of a description: its template and the values filled in
Description(template, args) == [template |-> template, args |-> args]

DataQualityIssue(issue_type, severity, source_file, row_number, field, original_value, normalized_value, description) ==
    [issue_type |-> issue_type, severity |-> severity,
     source_file |-> source_file, row_number |-> row_number, field |-> field,
     original_value |-> original_value, normalized_value |-> normalized_value,
     description |-> description]

\* a detector's outcome: its issues, or the exception it raised
Issues(list) == [raised |-> None, issues |-> list]
Raises(e) == [raised |-> Some(e), issues |-> <<>>]

\* f"{row['sku']}@{row['location']}"
KeyValue(row) == Str(row.sku) \o <<"@">> \o Str(row.location)

\* int(idx) + 1
RowNum(row) == row.idx + 1

DuplicateIssue(row, source_file) ==
    DataQualityIssue("duplicate_key", "error", source_file,
        Some(RowNum(row)), Some(F_sku_location), Some(KeyValue(row)), None,
        Description("Duplicate key {key_value} at row {row_num}",
                    <<KeyValue(row), RowNum(row)>>))

check_duplicates(df, source_file) ==
    LET duplicates == BoolIndex(df, duplicated(df))
    IN Issues([i \in 1..Len(duplicates) |-> DuplicateIssue(duplicates[i], source_file)])

\* df["quantity"] < 0 on one cell; comparing a str with 0 raises TypeError
IsNegative(cell) ==
    CASE cell.kind = "int" -> cell.v < 0
      [] cell.kind = "float" -> cell.h < 0
      [] OTHER -> FALSE

NegativeIssue(row, source_file) ==
    DataQualityIssue("negative_quantity", "error", source_file,
        Some(RowNum(row)), Some(F_quantity), Some(CellToStr(row.quantity)), None,
        Description("Negative quantity {qty} for SKU {sku} at row {row_num}",
                    <<CellToStr(row.quantity), Str(row.sku), RowNum(row)>>))

ComparesStrWithInt(df) == \E i \in 1..Len(df) : df[i].quantity.kind = "str"

check_negative_quantities(df, source_file) ==
    IF ComparesStrWithInt(df) THEN Raises("TypeError")
    ELSE LET negative == BoolIndex(df, [i \in 1..Len(df) |-> IsNegative(df[i].quantity)])
         IN Issues([i \in 1..Len(negative) |-> NegativeIssue(negative[i], source_file)])

\* the concatenation of Each(df[i]) for the rows of df, in order
ConcatMap(df, Each(_)) == Flatten([i \in 1..Len(df) |-> Each(df[i])])

SkuFormatIssues(row, source_file) ==
    LET original_sku == Strip(Str(row.sku))
        normalized_sku == normalize_sku(original_sku)
    IN IF original_sku # normalized_sku /\ normalized_sku # <<>>
       THEN <<DataQualityIssue("sku_format_normalized", "warning", source_file,
                 Some(RowNum(row)), Some(F_sku), Some(original_sku),
                 Some(normalized_sku),
                 Description("SKU normalized from '{original_sku}' to '{normalized_sku}' at row {row_num}",
                             <<original_sku, normalized_sku, RowNum(row)>>))>>
       ELSE <<>>

check_sku_format(df, source_file) ==
    LET Each(row) == SkuFormatIssues(row, source_file)
    IN Issues(ConcatMap(df, Each))

\* repr(s) of a str without quotes or escapes in it
Repr(s) == <<"'">> \o s \o <<"'">>

WhitespaceIssues(row, field, value, source_file) ==
    LET original == Str(value)
        trimmed == Strip(original)
    IN IF original # trimmed
       THEN <<DataQualityIssue("whitespace_trimmed", "warning", source_file,
                 Some(RowNum(row)), Some(field), Some(Repr(original)), Some(trimmed),
                 Description("Whitespace trimmed from {field} at row {row_num}",
                             <<field, RowNum(row)>>))>>
       ELSE <<>>

check_whitespace(df, source_file) ==
    LET EachName(row) == WhitespaceIssues(row, F_name, row.name, source_file)
        EachLocation(row) == WhitespaceIssues(row, F_location, row.location, source_file)
    IN Issues(ConcatMap(df, EachName) \o ConcatMap(df, EachLocation))

\* re.compile(r"^\d{4}-\d{2}-\d{2}$").match(s)
MatchesIso(s) ==
    /\ Len(s) = 10
    /\ AllDigits(SubSeq(s, 1, 4)) /\ s[5] = "-"
    /\ AllDigits(SubSeq(s, 6, 7)) /\ s[8] = "-"
    /\ AllDigits(SubSeq(s, 9, 10))

DateFormatIssues(row, source_file) ==
    LET date_value == Strip(Str(row.last_counted))
    IN IF ~MatchesIso(date_value)
       THEN <<DataQualityIssue("date_format_inconsistent", "warning", source_file,
                 Some(RowNum(row)), Some(F_last_counted), Some(date_value), None,
                 Description("Date '{date_value}' is not in ISO format (YYYY-MM-DD) at row {row_num}",
                             <<date_value, RowNum(row)>>))>>
       ELSE <<>>

check_date_format(df, source_file) ==
    LET Each(row) == DateFormatIssues(row, source_file)
    IN Issues(ConcatMap(df, Each))

\* the dtype pandas gives a text column: float64 when every cell is missing
TextDtype(df, Col(_)) ==
    IF \A i \in 1..Len(df) : Col(df[i]) = NaN THEN "float64" ELSE "object"

\* pd.merge refuses to join a float64 key column with a column of strings
MergeKeysIncompatible(left, right) ==
    LET Sku(r) == r.sku
        Location(r) == r.location
    IN \/ TextDtype(left, Sku) # TextDtype(right, Sku)
       \/ TextDtype(left, Location) # TextDtype(right, Location)

\* pd.merge(left, right, on=key_cols, how="inner"): the pairs of rows with
\* equal keys, in the order of the left rows
InnerMerge(left, right) ==
    Flatten([i \in 1..Len(left) |->
        LET rs == RowsWithKey(right, KeyOf(left[i]))
        IN [j \in 1..Len(rs) |-> [old |-> left[i], new |-> rs[j]]]])

IsLeap(y) == (y % 4 = 0 /\ y % 100 # 0) \/ y % 400 = 0
DaysInMonth(y, m) ==
    IF m = 2 THEN (IF IsLeap(y) THEN 29 ELSE 28)
    ELSE IF m \in {4, 6, 9, 11} THEN 30 ELSE 31

\* parse_date(date_str): the date as <<year, month, day>>, or None
parse_date(date_str) ==
    LET t == Strip(Str(date_str))
    IN IF ~MatchesIso(t) THEN None
       ELSE LET y == DigitsToNat(SubSeq(t, 1, 4))
                m == DigitsToNat(SubSeq(t, 6, 7))
                d == DigitsToNat(SubSeq(t, 9, 10))
            IN IF y >= 1 /\ m \in 1..12 /\ d >= 1 /\ d <= DaysInMonth(y, m)
               THEN Some(<<y, m, d>>) ELSE None

\* date <= date
DateNotAfter(a, b) == a = b \/ a[1] < b[1] \/ (a[1] = b[1] /\ a[2] < b[2])
                      \/ (a[1] = b[1] /\ a[2] = b[2] /\ a[3] < b[3])
\* date < date
DateLess(a, b) ==
    \/ a[1] < b[1]
    \/ a[1] = b[1] /\ a[2] < b[2]
    \/ a[1] = b[1] /\ a[2] = b[2] /\ a[3] < b[3]

DateRegressionIssues(pair) ==
    LET old_date_str == Strip(Str(pair.old.last_counted))
        new_date_str == Strip(Str(pair.new.last_counted))
        old_date == parse_date(old_date_str)
        new_date == parse_date(new_date_str)
    IN IF old_date # None /\ new_date # None /\ DateLess(new_date[1], old_date[1])
       THEN <<DataQualityIssue("date_regression", "warning", "both",
                 None, Some(F_last_counted), Some(old_date_str), Some(new_date_str),
                 Description("Date regressed for {key_value}: '{old_date_str}' -> '{new_date_str}'",
                             <<KeyValue(pair.old), old_date_str, new_date_str>>))>>
       ELSE <<>>

check_date_regression(t1, t2) ==
    IF MergeKeysIncompatible(t1, t2) THEN Raises("ValueError")
    ELSE Issues(ConcatMap(InnerMerge(t1, t2), DateRegressionIssues))

\* column_mapping.get(original_name.lower(), original_name)
ColumnMappingGet(lowered, default) ==
    CASE lowered = F_product_name -> F_name
      [] lowered = F_qty -> F_quantity
      [] lowered = F_warehouse -> F_location
      [] lowered = F_updated_at -> F_last_counted
      [] OTHER -> default

ColumnNameIssue(original_name, source_file) ==
    LET canonical_name == ColumnMappingGet(Lower(original_name), original_name)
    IN DataQualityIssue("column_name_mismatch", "info", source_file,
          None, Some(original_name), Some(original_name), Some(canonical_name),
          Description("Column '{original_name}' mapped to '{canonical_name}'",
                      <<original_name, canonical_name>>))

check_column_names(mapped_columns, source_file) ==
    Issues([i \in 1..Len(mapped_columns) |->
              ColumnNameIssue(mapped_columns[i], source_file)])

\* the names compared as written, untrimmed
NameDriftIssuesUntrimmed(pair) ==
    LET old_name == Str(pair.old.name)
        new_name == Str(pair.new.name)
    IN IF old_name # new_name
       THEN <<DataQualityIssue("name_drift", "warning", "both",
                 None, Some(F_name), Some(Strip(old_name)), Some(Strip(new_name)),
                 Description("Name changed for {key_value}: '{old_name}' -> '{new_name}'",
                             <<KeyValue(pair.old), Strip(old_name), Strip(new_name)>>))>>
       ELSE <<>>

NameDriftIssues(pair) ==
    LET old_name == Strip(Str(pair.old.name))
        new_name == Strip(Str(pair.new.name))
    IN IF old_name # new_name
       THEN <<DataQualityIssue("name_drift", "warning", "both",
                 None, Some(F_name), Some(old_name), Some(new_name),
                 Description("Name changed for {key_value}: '{old_name}' -> '{new_name}'",
                             <<KeyValue(pair.old), old_name, new_name>>))>>
       ELSE <<>>

check_name_drift(t1, t2) ==
    IF MergeKeysIncompatible(t1, t2) THEN Raises("ValueError")
    ELSE Issues(ConcatMap(InnerMerge(t1, t2), NameDriftIssues))

check_empty_file(df, source_file) ==
    IF df = <<>>
    THEN Issues(<<DataQualityIssue("empty_file", "error", source_file,
                    None, None, None, None,
                    Description("File {source_file} contains no data rows",
                                <<source_file>>))>>)
    ELSE Issues(<<>>)

MissingColumnIssue(col, source_file) ==
    DataQualityIssue("missing_required_column", "error", source_file,
        None, Some(col), None, None,
        Description("Required column '{col}' not found in {source_file}",
                    <<col, source_file>>))

check_missing_columns(missing_columns, source_file) ==
    Issues([i \in 1..Len(missing_columns) |->
              MissingColumnIssue(missing_columns[i], source_file)])

\* issues.extend(...) for a list of detector outcomes, in order: the first
\* exception leaves run_all_checks
RECURSIVE Extend(_)
Extend(outcomes) ==
    IF outcomes = <<>> THEN Issues(<<>>)
    ELSE IF Head(outcomes).raised # None THEN Head(outcomes)
    ELSE LET rest == Extend(Tail(outcomes))
         IN IF rest.raised # None THEN rest
            ELSE Issues(Head(outcomes).issues \o rest.issues)

PerSnapshotChecks(df, source) ==
    IF df = <<>> THEN <<>>
    ELSE <<check_duplicates(df, source),
           check_negative_quantities(df, source),
           check_sku_format(df, source),
           check_whitespace(df, source),
           check_date_format(df, source)>>

run_all_checks(t1, t2, mapped_columns_1, mapped_columns_2, missing_columns_1, missing_columns_2) ==
    Extend(<<check_empty_file(t1, "snapshot_1"),
             check_empty_file(t2, "snapshot_2"),
             check_missing_columns(missing_columns_1, "snapshot_1"),
             check_missing_columns(missing_columns_2, "snapshot_2"),
             check_column_names(mapped_columns_1, "snapshot_1"),
             check_column_names(mapped_columns_2, "snapshot_2")>>
           \o PerSnapshotChecks(t1, "snapshot_1")
           \o PerSnapshotChecks(t2, "snapshot_2")
           \o (IF t1 # <<>> /\ t2 # <<>>
               THEN <<check_name_drift(t1, t2), check_date_regression(t1, t2)>>
               ELSE <<>>))

----------------------------------------------------------------------------
(* services/reporter.py, models/report.py                                  *)

\* the closed enumerations in the order Python's < gives their strings
SeverityOrder == <<"error", "info", "warning">>
IssueTypeOrder ==
    <<"column_name_mismatch", "date_format_inconsistent", "date_regression",
      "duplicate_key", "empty_file", "missing_required_column", "name_drift",
      "negative_quantity", "quantity_coerced", "sku_format_normalized",
      "whitespace_trimmed">>
SourceFileOrder == <<"both", "snapshot_1", "snapshot_2">>

\* the key without the row number
IssueSortKeyNoRow(i) ==
    <<IndexIn(i.severity, SeverityOrder),
      IndexIn(i.issue_type, IssueTypeOrder),
      IndexIn(i.source_file, SourceFileOrder), 0>>

\* key=lambda i: (i.severity, i.issue_type, i.source_file, i.row_number or 0)
IssueSortKey(i) ==
    <<IndexIn(i.severity, SeverityOrder),
      IndexIn(i.issue_type, IssueTypeOrder),
      IndexIn(i.source_file, SourceFileOrder),
      IF i.row_number = None THEN 0 ELSE i.row_number[1]>>

\* < on tuples of four integers
RECURSIVE TupleLess(_, _)
TupleLess(a, b) ==
    IF a = <<>> \/ b = <<>> THEN FALSE
    ELSE IF Head(a) = Head(b) THEN TupleLess(Tail(a), Tail(b))
    ELSE Head(a) < Head(b)

IssueLess(a, b) == TupleLess(IssueSortKey(a), IssueSortKey(b))
ResultLess(a, b) == KeyLess(KeyOf(a), KeyOf(b))

\* sorted(): stable, so x goes before the first element that is greater
RECURSIVE InsertIssue(_, _)
InsertIssue(sorted, x) ==
    IF sorted = <<>> THEN <<x>>
    ELSE IF IssueLess(x, Head(sorted)) THEN <<x>> \o sorted
    ELSE <<Head(sorted)>> \o InsertIssue(Tail(sorted), x)

RECURSIVE SortIssues(_)
SortIssues(list) ==
    IF list = <<>> THEN <<>>
    ELSE InsertIssue(SortIssues(SubSeq(list, 1, Len(list) - 1)), list[Len(list)])

RECURSIVE InsertResult(_, _)
InsertResult(sorted, x) ==
    IF sorted = <<>> THEN <<x>>
    ELSE IF ResultLess(x, Head(sorted)) THEN <<x>> \o sorted
    ELSE <<Head(sorted)>> \o InsertResult(Tail(sorted), x)

RECURSIVE SortResults(_)
SortResults(list) ==
    IF list = <<>> THEN <<>>
    ELSE InsertResult(SortResults(SubSeq(list, 1, Len(list) - 1)), list[Len(list)])

\* [r for r in results if r.status == status]
RECURSIVE WithStatus(_, _)
WithStatus(list, status) ==
    IF list = <<>> THEN <<>>
    ELSE (IF Head(list).status = status THEN <<Head(list)>> ELSE <<>>)
         \o WithStatus(Tail(list), status)

\* the group in the order of the results
GroupUnsorted(list, status) == WithStatus(list, status)
Group(list, status) == SortResults(WithStatus(list, status))

\* counting every issue under each severity
CountSeverityAny(list, severity) == Len(list)

RECURSIVE CountSeverity(_, _)
CountSeverity(list, severity) ==
    IF list = <<>> THEN 0
    ELSE (IF Head(list).severity = severity THEN 1 ELSE 0)
         + CountSeverity(Tail(list), severity)

\* generated_at: the injected timestamp, else the clock
GeneratedAtClock(generated_at, now) == now
GeneratedAt(generated_at, now) ==
    IF generated_at = None THEN now ELSE generated_at[1]

build_report(rs, issues, snapshot_1_path, snapshot_2_path, snapshot_1_rows, snapshot_2_rows, snapshot_1_valid_rows, snapshot_2_valid_rows, generated_at, now) ==
    LET unchanged == Group(rs, "unchanged")
        quantity_changed == Group(rs, "quantity_changed")
        added == Group(rs, "added")
        removed == Group(rs, "removed")
    IN [metadata |->
            [generated_at |-> GeneratedAt(generated_at, now),
             snapshot_1_path |-> snapshot_1_path,
             snapshot_2_path |-> snapshot_2_path,
             snapshot_1_rows |-> snapshot_1_rows,
             snapshot_2_rows |-> snapshot_2_rows,
             snapshot_1_valid_rows |-> snapshot_1_valid_rows,
             snapshot_2_valid_rows |-> snapshot_2_valid_rows],
        summary |->
            [total_items_compared |-> Len(rs),
             unchanged |-> Len(unchanged),
             quantity_changed |-> Len(quantity_changed),
             added |-> Len(added),
             removed |-> Len(removed),
             quality_issues_count |-> Len(issues),
             quality_issues_by_severity |->
                 [error |-> CountSeverity(issues, "error"),
                  warning |-> CountSeverity(issues, "warning"),
                  info |-> CountSeverity(issues, "info")]],
        results |->
            [unchanged |-> unchanged, quantity_changed |-> quantity_changed,
             added |-> added, removed |-> removed],
        quality_issues |-> SortIssues(issues)]

\* json.dump of an Optional value: None is written as null
JsonOpt(x) == IF x = None THEN <<"null">> ELSE <<"value", x[1]>>

\* json.dump(..., sort_keys=True) of a dict: its items in the order of the keys
ResultJson(r) ==
    <<<<"location", r.location>>, <<"new_name", JsonOpt(r.new_name)>>,
      <<"new_quantity", JsonOpt(r.new_quantity)>>,
      <<"old_name", JsonOpt(r.old_name)>>,
      <<"old_quantity", JsonOpt(r.old_quantity)>>,
      <<"quantity_delta", JsonOpt(r.quantity_delta)>>,
      <<"sku", r.sku>>, <<"status", r.status>>>>

IssueJson(i) ==
    <<<<"description", i.description>>, <<"field", JsonOpt(i.field)>>,
      <<"issue_type", i.issue_type>>,
      <<"normalized_value", JsonOpt(i.normalized_value)>>,
      <<"original_value", JsonOpt(i.original_value)>>,
      <<"row_number", JsonOpt(i.row_number)>>,
      <<"severity", i.severity>>, <<"source_file", i.source_file>>>>

ListJson(list, Item(_)) == [n \in 1..Len(list) |-> Item(list[n])]

MetadataJson(m) ==
    <<<<"generated_at", m.generated_at>>,
      <<"snapshot_1_path", m.snapshot_1_path>>,
      <<"snapshot_1_rows", m.snapshot_1_rows>>,
      <<"snapshot_1_valid_rows", m.snapshot_1_valid_rows>>,
      <<"snapshot_2_path", m.snapshot_2_path>>,
      <<"snapshot_2_rows", m.snapshot_2_rows>>,
      <<"snapshot_2_valid_rows", m.snapshot_2_valid_rows>>>>

SummaryJson(sm) ==
    <<<<"added", sm.added>>,
      <<"quality_issues_by_severity",
        <<<<"error", sm.quality_issues_by_severity.error>>,
          <<"info", sm.quality_issues_by_severity.info>>,
          <<"warning", sm.quality_issues_by_severity.warning>>>>>>,
      <<"quality_issues_count", sm.quality_issues_count>>,
      <<"quantity_changed", sm.quantity_changed>>,
      <<"removed", sm.removed>>,
      <<"total_items_compared", sm.total_items_compared>>,
      <<"unchanged", sm.unchanged>>>>

ResultsJson(g) ==
    <<<<"added", ListJson(g.added, ResultJson)>>,
      <<"quantity_changed", ListJson(g.quantity_changed, ResultJson)>>,
      <<"removed", ListJson(g.removed, ResultJson)>>,
      <<"unchanged", ListJson(g.unchanged, ResultJson)>>>>

\* write_json: the text written, the document and the trailing newline
write_json(rep) ==
    <<<<<<"metadata", MetadataJson(rep.metadata)>>,
        <<"quality_issues", ListJson(rep.quality_issues, IssueJson)>>,
        <<"results", ResultsJson(rep.results)>>,
        <<"summary", SummaryJson(rep.summary)>>>>,
      "\n">>

----------------------------------------------------------------------------
(* Input domains                                                           *)

Str_SKU001 == <<"S", "K", "U", "-", "0", "0", "1">>
Str_SKU002 == <<"S", "K", "U", "-", "0", "0", "2">>
Str_A == <<"A">>
Str_B == <<"B">>
Str_Widget == <<"W">>
Str_Gadget == <<"G">>

\* normalized rows: text fields are strings, quantity is an int64 cell
NormKeys == {<<Str_SKU001, Str_A>>, <<Str_SKU001, Str_B>>, <<Str_SKU002, Str_A>>}
NormNames == {Str_Widget, Str_Gadget}
NormQuantities == {5, 7}

NormRow(k, name, q, idx) ==
    [sku |-> k[1], location |-> k[2], name |-> name,
     quantity |-> IntCell(q), idx |-> idx]

\* every table of at most n rows, idx = 0, 1, ...
RECURSIVE NormTables(_)
NormTables(n) ==
    IF n = 0 THEN {<<>>}
    ELSE LET shorter == NormTables(n - 1)
         IN shorter \cup
            {Append(t, NormRow(k, name, q, Len(t))) :
                t \in {u \in shorter : Len(u) = n - 1},
                k \in NormKeys, name \in NormNames, q \in NormQuantities}

NoRepeatedKey(t) == \A i, j \in 1..Len(t) : KeyOf(t[i]) = KeyOf(t[j]) => i = j

----------------------------------------------------------------------------
(* The reconciler alone, on every pair of duplicate-free tables            *)

InitReconcile ==
    /\ pc = "reconcile"
    /\ df1 = <<>> /\ df2 = <<>> /\ df1_norm = <<>> /\ df2_norm = <<>>
    /\ quality_issues = <<>>
    /\ df1_clean \in {t \in NormTables(MaxRows) : NoRepeatedKey(t)}
    /\ df2_clean \in {t \in NormTables(MaxRows) : NoRepeatedKey(t)}
    /\ results = <<>>
    /\ raised = None
    /\ mapped1 = <<>> /\ mapped2 = <<>> /\ missing1 = <<>> /\ missing2 = <<>>
    /\ normalizations = <<>>
    /\ report = None /\ output_file = None /\ exit_code = None
    /\ files = None /\ timestamp = None /\ outputs = <<>> /\ frames = None
    /\ float_qty1 = {} /\ float_qty2 = {}

\* cli.py step 6: results = reconcile(df1_clean, df2_clean, key_cols)
Reconcile ==
    /\ pc = "reconcile"
    /\ LET ret == reconcile(df1_clean, df2_clean)
       IN /\ raised' = ret.raised
          /\ results' = ret.results
          /\ pc' = IF ret.raised = None THEN "write" ELSE "raised"
    /\ UNCHANGED <<float_qty1, float_qty2, frames, files, timestamp, outputs,
                   df1, df2, df1_norm, df2_norm, quality_issues,
                   df1_clean, df2_clean, mapped1, mapped2, missing1, missing2,
                   normalizations, report, output_file, exit_code>>

NextReconcile == Reconcile

SpecReconcile == InitReconcile /\ [][NextReconcile]_vars

----------------------------------------------------------------------------
(* services/loader.py: pd.read_csv                                         *)

\* One data row of a file is a record of cell texts; an empty text is a
\* missing cell.  read_csv gives the quantity column one dtype: int64 when
\* every cell is an integer, float64 when every cell is a number or missing,
\* else object, whose cells stay text.
TextCell(text) == IF text = <<>> THEN NaN ELSE text

QuantityDtype(rows) ==
    IF \A i \in 1..Len(rows) : IsIntLiteral(rows[i].quantity) THEN "int64"
    ELSE IF \A i \in 1..Len(rows) :
                rows[i].quantity = <<>> \/ ParseDecimal(rows[i].quantity) # None
    THEN "float64"
    ELSE "object"

QuantityCell(dtype, text) ==
    IF text = <<>> THEN NaNCell
    ELSE CASE dtype = "int64" -> IntCell(ParseDecimal(text)[1] \div 100)
           [] dtype = "float64" -> FloatCell(ParseDecimal(text)[1])
           [] OTHER -> StrCell(text)

read_csv(rows) ==
    [i \in 1..Len(rows) |->
        [sku |-> TextCell(rows[i].sku), name |-> TextCell(rows[i].name),
         quantity |-> QuantityCell(QuantityDtype(rows), rows[i].quantity),
         location |-> TextCell(rows[i].location),
         last_counted |-> TextCell(rows[i].last_counted),
         idx |-> i - 1]]

----------------------------------------------------------------------------
(* The stages of main after both snapshots are loaded (cli.py steps 3-7),  *)
(* on every pair of non-empty snapshots with all required columns          *)

Raw_SKU001 == <<"S", "K", "U", "-", "0", "0", "1">>
Raw_sku001 == <<"s", "k", "u", "0", "0", "1">>
Raw_abc == <<"a", "b", "c">>
Raw_date == <<"2", "0", "2", "4", "-", "0", "1", "-", "0", "8">>

FileSkus == {Raw_SKU001, Raw_sku001}
FileLocations == {Str_A, Str_B}
FileNames == {Str_Widget, Str_Gadget}
FileQuantities == {<<"5">>, <<"7">>, Raw_abc}
FileDates == {Raw_date}
MappedColumns == {<<>>, <<<<"Q", "t", "y">>>>}
Clock == {"2024-01-15T10:30:00Z", "2024-01-16T10:30:00Z"}

FileRows ==
    [sku : FileSkus, name : FileNames, quantity : FileQuantities,
     location : FileLocations, last_counted : FileDates]

\* the files of exactly n data rows
RECURSIVE FilesOfLen(_)
FilesOfLen(n) ==
    IF n = 0 THEN {<<>>}
    ELSE {Append(f, r) : f \in FilesOfLen(n - 1), r \in FileRows}

snapshot1_path == "data/snapshot_1.csv"
snapshot2_path == "data/snapshot_2.csv"

InitPipeline ==
    /\ pc = "normalize"
    /\ \E n1, n2 \in 1..MaxTotalRows :
          /\ n1 + n2 <= MaxTotalRows
          /\ df1 \in {read_csv(f) : f \in FilesOfLen(n1)}
          /\ df2 \in {read_csv(f) : f \in FilesOfLen(n2)}
    /\ mapped1 \in MappedColumns /\ mapped2 = <<>>
    /\ missing1 = <<>> /\ missing2 = <<>>
    /\ df1_norm = <<>> /\ df2_norm = <<>> /\ normalizations = <<>>
    /\ quality_issues = <<>>
    /\ df1_clean = <<>> /\ df2_clean = <<>>
    /\ results = <<>>
    /\ raised = None
    /\ report = None /\ output_file = None /\ exit_code = None
    /\ files = None /\ timestamp = None /\ outputs = <<>> /\ frames = None
    /\ float_qty1 = {} /\ float_qty2 = {}

\* step 3: df1_norm, normalizations1 = normalize_dataframe(df1), and df2
Normalize ==
    /\ pc = "normalize"
    /\ df1_norm' = normalize_dataframe(df1).result
    /\ df2_norm' = normalize_dataframe(df2).result
    /\ normalizations' = <<normalize_dataframe(df1).normalizations,
                           normalize_dataframe(df2).normalizations>>
    /\ pc' = "check"
    /\ UNCHANGED <<float_qty1, float_qty2, frames, files, timestamp, outputs,
                   df1, df2, quality_issues, df1_clean, df2_clean, results,
                   raised, mapped1, mapped2, missing1, missing2, report,
                   output_file, exit_code>>

\* step 4: quality_issues = run_all_checks(df1, df2, ...), on the raw tables
CheckQuality ==
    /\ pc = "check"
    /\ LET ret == run_all_checks(df1, df2, mapped1, mapped2, missing1, missing2)
       IN /\ raised' = ret.raised
          /\ quality_issues' = ret.issues
          /\ pc' = IF ret.raised = None THEN "detect" ELSE "raised"
    /\ UNCHANGED <<float_qty1, float_qty2, frames, files, timestamp, outputs,
                   df1, df2, df1_norm, df2_norm, df1_clean, df2_clean, results,
                   mapped1, mapped2, missing1, missing2, normalizations,
                   report, output_file, exit_code>>

\* step 5, for one table: the rows that find_duplicates returns are removed
FilterKeepFirst(df_norm) == BoolIndex(df_norm, Not(DuplicatedKeepFirst(df_norm)))
FilterDuplicates(df_norm) ==
    IF find_duplicates(df_norm) # <<>>
    THEN BoolIndex(df_norm, Not(duplicated(df_norm)))
    ELSE df_norm

DetectDuplicates ==
    /\ pc = "detect"
    /\ df1_clean' = FilterDuplicates(df1_norm)
    /\ df2_clean' = FilterDuplicates(df2_norm)
    /\ pc' = "reconcile"
    /\ UNCHANGED <<float_qty1, float_qty2, frames, files, timestamp, outputs,
                   df1, df2, df1_norm, df2_norm, quality_issues, results,
                   raised, mapped1, mapped2, missing1, missing2,
                   normalizations, report, output_file, exit_code>>

\* step 7 with the rows of the normalized tables given as the valid rows
WriteOutputUnfilteredCounts ==
    /\ pc = "write"
    /\ \E now \in Clock :
          report' = Some(build_report(results, quality_issues,
                            snapshot1_path, snapshot2_path,
                            Len(df1), Len(df2), Len(df1_norm), Len(df2_norm),
                            None, now))
    /\ output_file' = Some(write_json(report'[1]))
    /\ pc' = "summary"
    /\ UNCHANGED <<float_qty1, float_qty2, frames, files, timestamp, outputs,
                   df1, df2, df1_norm, df2_norm, quality_issues, df1_clean,
                   df2_clean, results, raised, mapped1, mapped2, missing1,
                   missing2, normalizations, exit_code>>

\* step 7: build_report (generated_at is not passed: the clock) and write_json
WriteOutput ==
    /\ pc = "write"
    /\ \E now \in Clock :
          report' = Some(build_report(results, quality_issues,
                            snapshot1_path, snapshot2_path,
                            Len(df1), Len(df2), Len(df1_clean), Len(df2_clean),
                            None, now))
    /\ output_file' = Some(write_json(report'[1]))
    /\ pc' = "summary"
    /\ UNCHANGED <<float_qty1, float_qty2, frames, files, timestamp, outputs,
                   df1, df2, df1_norm, df2_norm, quality_issues, df1_clean,
                   df2_clean, results, raised, mapped1, mapped2, missing1,
                   missing2, normalizations, exit_code>>

\* print_summary(...); return 0
ReturnSuccess ==
    /\ pc = "summary"
    /\ exit_code' = Some(0)
    /\ pc' = "done"
    /\ UNCHANGED <<float_qty1, float_qty2, frames, files, timestamp, outputs,
                   df1, df2, df1_norm, df2_norm, quality_issues, df1_clean,
                   df2_clean, results, raised, mapped1, mapped2, missing1,
                   missing2, normalizations, report, output_file>>

NextPipeline ==
    \/ Normalize
    \/ CheckQuality
    \/ DetectDuplicates
    \/ Reconcile
    \/ WriteOutput
    \/ ReturnSuccess

SpecPipeline == InitPipeline /\ [][NextPipeline]_vars

----------------------------------------------------------------------------
(* services/loader.py: load_snapshot                                       *)

\* A file is its header (the column names as written) and its data rows.  A
\* data row is a record of cell texts by canonical column; a column that the
\* header lacks has no cells in the file, and its field is not read.  A file
\* of no bytes has no header.
REQUIRED_COLUMNS == {F_sku, F_name, F_quantity, F_location, F_last_counted}

\* col_lower in COLUMN_MAPPING
InColumnMapping(col_lower) ==
    col_lower \in {F_product_name, F_qty, F_warehouse, F_updated_at}

\* on the header: the renamed, lowercased and stripped names, and the names
\* that were renamed, as written
_apply_column_mapping(columns) ==
    [columns |-> [i \in 1..Len(columns) |->
                    LET col_lower == Strip(Lower(columns[i]))
                    IN ColumnMappingGet(col_lower, col_lower)],
     mapped_columns |->
        SelectSeq(columns, LAMBDA col : InColumnMapping(Strip(Lower(col))))]

\* REQUIRED_COLUMNS - present_columns, still a set
_validate_required_columns(columns) ==
    REQUIRED_COLUMNS \ {columns[i] : i \in 1..Len(columns)}

\* list(s) of a set of str: the elements in the order of their hashes, which
\* the interpreter draws anew for each process; every order can come out
ListOfSet(S) ==
    {l \in [1..Cardinality(S) -> S] :
        \A i, j \in 1..Cardinality(S) : l[i] = l[j] => i = j}

\* the dict of row index and stripped text of the quantities written with
\* a decimal point, as a set of pairs
_detect_float_quantities(file) ==
    IF ~IsIn(F_quantity, _apply_column_mapping(file.columns).columns) THEN {}
    ELSE {<<i - 1, Strip(file.rows[i].quantity)>> :
            i \in {j \in 1..Len(file.rows) :
                      /\ file.rows[j].quantity # <<>>
                      /\ IsIn(".", file.rows[j].quantity)}}

LoadReturns(df, mapped_columns, missing_columns, float_qty_rows) ==
    [raised |-> None,
     value |-> <<df, mapped_columns, missing_columns, float_qty_rows>>]
LoadRaises(e) == [raised |-> Some(e), value |-> <<>>]

\* a file without data rows treated as any other file
load_snapshot_NoEmptyCheck(file) ==
    IF file = None THEN {LoadRaises("FileNotFoundError")}
    ELSE IF file[1].columns = <<>> THEN {LoadRaises("EmptyDataError")}
    ELSE LET mapping == _apply_column_mapping(file[1].columns)
         IN {LoadReturns(read_csv(file[1].rows), mapping.mapped_columns,
                         missing, _detect_float_quantities(file[1])) :
               missing \in
                 ListOfSet(_validate_required_columns(mapping.columns))}
\* the outcomes load_snapshot can have for a path whose file is None (no
\* such file) or Some(file)
load_snapshot(file) ==
    IF file = None THEN {LoadRaises("FileNotFoundError")}
    ELSE IF file[1].columns = <<>> THEN {LoadRaises("EmptyDataError")}
    ELSE IF file[1].rows = <<>>
    THEN {LoadReturns(<<>>, <<>>, missing, {}) :
            missing \in ListOfSet(REQUIRED_COLUMNS)}
    ELSE LET mapping == _apply_column_mapping(file[1].columns)
         IN {LoadReturns(read_csv(file[1].rows), mapping.mapped_columns,
                         missing, _detect_float_quantities(file[1])) :
               missing \in
                 ListOfSet(_validate_required_columns(mapping.columns))}

----------------------------------------------------------------------------
(* cli.py: main, from its first statement                                  *)

Header_canonical == <<F_sku, F_name, F_quantity, F_location, F_last_counted>>
Header_mapped ==
    <<F_sku, F_product_name, <<"Q", "t", "y">>, F_warehouse, F_updated_at>>
Header_no_location == <<F_sku, F_name, F_quantity, F_last_counted>>
Headers == {Header_canonical, Header_mapped, Header_no_location}

SampleRows ==
    {r \in FileRows : /\ r.name = Str_Widget
                      /\ r.location = Str_A
                      /\ r.quantity \in {<<"5">>, Raw_abc}}

\* the data of at most n sample rows
RECURSIVE SampleData(_)
SampleData(n) ==
    IF n = 0 THEN {<<>>}
    ELSE SampleData(n - 1)
         \cup {Append(f, r) : f \in {g \in SampleData(n - 1) : Len(g) = n - 1},
                              r \in SampleRows}

CsvFiles(headers, data) ==
    {[columns |-> h, rows |-> d] : h \in headers, d \in data}

NoBytes == [columns |-> <<>>, rows |-> <<>>]

MainFiles ==
    {None} \cup {Some(f) : f \in {NoBytes}
                           \cup CsvFiles(Headers, SampleData(MaxFileRows))}

InitMain ==
    /\ pc = "start"
    /\ files \in [snapshot1 : MainFiles, snapshot2 : MainFiles]
    /\ df1 = <<>> /\ df2 = <<>> /\ df1_norm = <<>> /\ df2_norm = <<>>
    /\ quality_issues = <<>>
    /\ df1_clean = <<>> /\ df2_clean = <<>>
    /\ results = <<>>
    /\ raised = None
    /\ mapped1 = <<>> /\ mapped2 = <<>> /\ missing1 = <<>> /\ missing2 = <<>>
    /\ normalizations = <<>>
    /\ report = None /\ output_file = None /\ exit_code = None
    /\ timestamp = None /\ outputs = <<>> /\ frames = None
    /\ float_qty1 = {} /\ float_qty2 = {}

\* if not Path(snapshot1_path).exists(): return 1, and the same for 2
CheckFilesExist ==
    /\ pc = "start"
    /\ IF files.snapshot1 = None \/ files.snapshot2 = None
       THEN exit_code' = Some(1) /\ pc' = "done"
       ELSE exit_code' = exit_code /\ pc' = "load1"
    /\ UNCHANGED <<float_qty1, float_qty2, frames, files, timestamp, outputs, df1, df2, df1_norm, df2_norm,
                   quality_issues, df1_clean, df2_clean, results, raised,
                   mapped1, mapped2, missing1, missing2, normalizations,
                   report, output_file>>

\* a, b, c = value
Unpack3(value) == IF Len(value) = 3 THEN None ELSE Some("ValueError")

\* step 1: df1, mapped1, missing1 = load_snapshot(snapshot1_path), then
\* return 1 if missing1; an exception leaves main through the finally
LoadSnapshot1 ==
    /\ pc = "load1"
    /\ \E ret \in load_snapshot(files.snapshot1) :
          IF ret.raised # None
          THEN /\ raised' = ret.raised /\ pc' = "raised"
               /\ UNCHANGED <<df1, mapped1, missing1, exit_code>>
          ELSE IF Unpack3(ret.value) # None
          THEN /\ raised' = Unpack3(ret.value) /\ pc' = "raised"
               /\ UNCHANGED <<df1, mapped1, missing1, exit_code>>
          ELSE /\ df1' = ret.value[1]
               /\ mapped1' = ret.value[2]
               /\ missing1' = ret.value[3]
               /\ raised' = raised
               /\ IF ret.value[3] # <<>>
                  THEN exit_code' = Some(1) /\ pc' = "done"
                  ELSE exit_code' = exit_code /\ pc' = "load2"
    /\ UNCHANGED <<float_qty1, float_qty2, frames, files, timestamp, outputs, df2, df1_norm, df2_norm,
                   quality_issues, df1_clean, df2_clean, results,
                   mapped2, missing2, normalizations, report, output_file>>

\* No run leaves step 1 for step 2: the steps after it are those of
\* SpecPipeline.
NextMain ==
    \/ CheckFilesExist
    \/ LoadSnapshot1

SpecMain == InitMain /\ [][NextMain]_vars

----------------------------------------------------------------------------
(* Runs of the stages over the same files with an injected generated_at    *)

\* load, normalize, run_all_checks, duplicate filtering, reconcile,
\* build_report(..., generated_at) and write_json: what the run wrote, or
\* the exception it ended with
RunStages(load1, load2, generated_at, now) ==
    IF load1.raised # None THEN <<"raised", load1.raised[1]>>
    ELSE IF load2.raised # None THEN <<"raised", load2.raised[1]>>
    ELSE LET t1 == load1.value[1]
             t2 == load2.value[1]
             checks == run_all_checks(t1, t2, load1.value[2], load2.value[2],
                                      load1.value[3], load2.value[3])
             c1 == FilterDuplicates(normalize_dataframe(t1).result)
             c2 == FilterDuplicates(normalize_dataframe(t2).result)
             rec == reconcile(c1, c2)
         IN IF checks.raised # None THEN <<"raised", checks.raised[1]>>
            ELSE IF rec.raised # None THEN <<"raised", rec.raised[1]>>
            ELSE <<"written",
                   write_json(build_report(rec.results, checks.issues,
                       snapshot1_path, snapshot2_path, Len(t1), Len(t2),
                       Len(c1), Len(c2), generated_at, now))>>

\* the generated_at of test_json_output_is_deterministic
InjectedTimestamps == {"2026-01-02T10:30:00Z"}

InitDeterminism ==
    /\ pc = "run"
    /\ files \in
         [snapshot1 : {Some(f) : f \in CsvFiles({Header_canonical},
                                               SampleData(MaxFileRows))},
          snapshot2 : {Some(f) : f \in CsvFiles({Header_mapped},
                                               SampleData(MaxFileRows) \ {<<>>})}]
    /\ timestamp \in {Some(t) : t \in InjectedTimestamps}
    /\ outputs = <<>> /\ frames = None
    /\ float_qty1 = {} /\ float_qty2 = {}
    /\ df1 = <<>> /\ df2 = <<>> /\ df1_norm = <<>> /\ df2_norm = <<>>
    /\ quality_issues = <<>>
    /\ df1_clean = <<>> /\ df2_clean = <<>>
    /\ results = <<>>
    /\ raised = None
    /\ mapped1 = <<>> /\ mapped2 = <<>> /\ missing1 = <<>> /\ missing2 = <<>>
    /\ normalizations = <<>>
    /\ report = None /\ output_file = None /\ exit_code = None

\* one run, in an interpreter process of its own, at its own time
Run ==
    /\ pc = "run"
    /\ Len(outputs) < MaxRuns
    /\ \E load1 \in load_snapshot(files.snapshot1),
          load2 \in load_snapshot(files.snapshot2), now \in Clock :
          outputs' = Append(outputs, RunStages(load1, load2, timestamp, now))
    /\ UNCHANGED <<float_qty1, float_qty2, frames, pc, files, timestamp, df1, df2, df1_norm, df2_norm,
                   quality_issues, df1_clean, df2_clean, results, raised,
                   mapped1, mapped2, missing1, missing2, normalizations,
                   report, output_file, exit_code>>

NextDeterminism == Run

SpecDeterminism == InitDeterminism /\ [][NextDeterminism]_vars

----------------------------------------------------------------------------
(* normalize_dataframe alone, called once and then again on its result     *)

Raw_SKU001_padded == <<" ", "S", "K", "U", "0", "0", "1", " ">>
Raw_SKU0001 == <<"S", "K", "U", "0", "0", "0", "1">>
Raw_ab1 == <<"a", "b", "-", "1">>
Raw_W_padded == <<" ", "W", " ">>

NormalizerSkus ==
    {<<>>, Raw_sku001, Raw_SKU001_padded, Raw_SKU001, Raw_SKU0001, Raw_ab1}
NormalizerQuantities ==
    {<<>>, <<"5">>, <<"-", "5">>, <<"1", "0", "0", ".", "0">>,
     <<"5", "0", ".", "5">>, <<"-", "5", ".", "5">>, Raw_abc}

NormalizerRows ==
    [sku : NormalizerSkus, name : {Str_Widget, Raw_W_padded},
     quantity : NormalizerQuantities, location : {Str_A},
     last_counted : FileDates]

\* the data of 1 to n rows
RECURSIVE NormalizerData(_)
NormalizerData(n) ==
    IF n = 1 THEN {<<r>> : r \in NormalizerRows}
    ELSE NormalizerData(n - 1)
         \cup {Append(f, r) : f \in {g \in NormalizerData(n - 1) : Len(g) = n - 1},
                              r \in NormalizerRows}

InitNormalizer ==
    /\ pc = "normalize"
    /\ df1 \in {read_csv(f) : f \in NormalizerData(MaxNormalizerRows)}
    /\ frames = [objects |-> <<df1>>, df |-> 1, result |-> 1]
    /\ float_qty1 = {} /\ float_qty2 = {}
    /\ df2 = <<>> /\ df1_norm = <<>> /\ df2_norm = <<>>
    /\ quality_issues = <<>>
    /\ df1_clean = <<>> /\ df2_clean = <<>>
    /\ results = <<>>
    /\ raised = None
    /\ mapped1 = <<>> /\ mapped2 = <<>> /\ missing1 = <<>> /\ missing2 = <<>>
    /\ normalizations = <<>>
    /\ report = None /\ output_file = None /\ exit_code = None
    /\ files = None /\ timestamp = None /\ outputs = <<>>

\* df1_norm, normalizations1 = normalize_dataframe(df1)
NormalizeFrame ==
    /\ pc = "normalize"
    /\ \E call \in {normalize_dataframe_call(frames.objects, frames.df)} :
          /\ frames' = [objects |-> call.objects, df |-> frames.df,
                        result |-> call.result]
          /\ df1_norm' = call.objects[call.result]
          /\ normalizations' = <<call.normalizations>>
    /\ pc' = "normalized"
    /\ UNCHANGED <<float_qty1, float_qty2, files, timestamp, outputs, df1, df2, df2_norm,
                   quality_issues, df1_clean, df2_clean, results, raised,
                   mapped1, mapped2, missing1, missing2, report, output_file,
                   exit_code>>

\* normalize_dataframe(df1_norm): the normalizer applied to its own result
NormalizeAgain ==
    /\ pc = "normalized"
    /\ \E call \in {normalize_dataframe_call(frames.objects, frames.result)} :
          /\ frames' = [frames EXCEPT !.objects = call.objects]
          /\ df2_norm' = call.objects[call.result]
          /\ normalizations' = Append(normalizations, call.normalizations)
    /\ pc' = "renormalized"
    /\ UNCHANGED <<float_qty1, float_qty2, files, timestamp, outputs, df1, df2, df1_norm,
                   quality_issues, df1_clean, df2_clean, results, raised,
                   mapped1, mapped2, missing1, missing2, report, output_file,
                   exit_code>>

NextNormalizer ==
    \/ NormalizeFrame
    \/ NormalizeAgain

SpecNormalizer == InitNormalizer /\ [][NextNormalizer]_vars

----------------------------------------------------------------------------
(* build_report on lists of results and issues in every order              *)
(* SpecReporter: the caller builds the report, then builds it again from the *)
(* same issues in another order, MaxRuns times in all                       *)

ReporterIssue(issue_type, severity, source_file, row_number, field) ==
    DataQualityIssue(issue_type, severity, source_file, row_number,
                     Some(field), None, None, Description(issue_type, <<field>>))

\* issues the detectors emit, with ties on (severity, type, file, row)
ReporterIssues ==
    {ReporterIssue("whitespace_trimmed", "info", "snapshot_1", Some(1), "name"),
     ReporterIssue("whitespace_trimmed", "info", "snapshot_1", Some(1), "location"),
     ReporterIssue("duplicate_key", "error", "snapshot_1", Some(2), "sku"),
     ReporterIssue("duplicate_key", "error", "snapshot_1", Some(1), "sku"),
     ReporterIssue("name_drift", "warning", "both", None, "name"),
     ReporterIssue("missing_required_column", "error", "snapshot_2", None, "sku"),
     ReporterIssue("missing_required_column", "error", "snapshot_2", None, "name")}

ReporterResults ==
    {ReconciliationResult(Str_SKU001, Str_B, "unchanged", Some(5), Some(5),
                          Some(0), Some(Str_Widget), Some(Str_Widget)),
     ReconciliationResult(Str_SKU001, Str_A, "unchanged", Some(7), Some(7),
                          Some(0), Some(Str_Widget), Some(Str_Widget)),
     ReconciliationResult(Str_SKU002, Str_A, "quantity_changed", Some(5), Some(7),
                          Some(2), Some(Str_Gadget), Some(Str_Gadget)),
     ReconciliationResult(Str_SKU002, Str_B, "added", None, Some(7),
                          None, None, Some(Str_Gadget)),
     ReconciliationResult(Str_SKU001, Str_A, "removed", Some(5), None,
                          None, Some(Str_Widget), None)}

RECURSIVE ListsOf(_, _)
ListsOf(S, n) ==
    IF n = 0 THEN {<<>>}
    ELSE ListsOf(S, n - 1)
         \cup {Append(l, x) : l \in {m \in ListsOf(S, n - 1) : Len(m) = n - 1},
                              x \in S}

\* the orders in which the same values can be handed over
Reorderings(list) ==
    {[i \in 1..Len(list) |-> list[p[i]]] :
        p \in {q \in [1..Len(list) -> 1..Len(list)] :
                  \A i, j \in 1..Len(list) : q[i] = q[j] => i = j}}

InitReporter ==
    /\ pc = "report"
    /\ results \in ListsOf(ReporterResults, MaxReportResults)
    /\ quality_issues \in ListsOf(ReporterIssues, MaxReportIssues)
    /\ timestamp \in {Some(t) : t \in InjectedTimestamps}
    /\ outputs = <<>>
    /\ report = None
    /\ df1 = <<>> /\ df2 = <<>> /\ df1_norm = <<>> /\ df2_norm = <<>>
    /\ df1_clean = <<>> /\ df2_clean = <<>>
    /\ raised = None
    /\ mapped1 = <<>> /\ mapped2 = <<>> /\ missing1 = <<>> /\ missing2 = <<>>
    /\ normalizations = <<>>
    /\ output_file = None /\ exit_code = None
    /\ files = None /\ frames = None
    /\ float_qty1 = {} /\ float_qty2 = {}

\* build_report with the paths and row counts of the caller
ReportOf(issues, now) ==
    build_report(results, issues, "s1.csv", "s2.csv", Len(results), Len(results),
                 Len(results), Len(results), timestamp, now)

\* report = build_report(results, quality_issues, ...)
BuildReport ==
    /\ pc = "report"
    /\ \E now \in Clock :
          /\ report' = Some(ReportOf(quality_issues, now))
          /\ outputs' = <<ReportOf(quality_issues, now)>>
    /\ pc' = "built"
    /\ UNCHANGED <<float_qty1, float_qty2, frames, files, timestamp, df1, df2, df1_norm, df2_norm,
                   quality_issues, df1_clean, df2_clean, results, raised,
                   mapped1, mapped2, missing1, missing2, normalizations,
                   output_file, exit_code>>

\* the same call after the detectors emitted the same issues in another order
BuildReportReordered ==
    /\ pc = "built"
    /\ Len(outputs) < MaxRuns
    /\ \E issues \in Reorderings(quality_issues), now \in Clock :
          /\ report' = Some(ReportOf(issues, now))
          /\ outputs' = Append(outputs, ReportOf(issues, now))
    /\ UNCHANGED <<float_qty1, float_qty2, pc, frames, files, timestamp, df1, df2, df1_norm, df2_norm,
                   quality_issues, df1_clean, df2_clean, results, raised,
                   mapped1, mapped2, missing1, missing2, normalizations,
                   output_file, exit_code>>

NextReporter ==
    \/ BuildReport
    \/ BuildReportReordered

SpecReporter == InitReporter /\ [][NextReporter]_vars

----------------------------------------------------------------------------
(* The float maps of load_snapshot and the quantity_coerced warnings         *)
(* SpecQuantityFormat: both snapshots are loaded, then the battery is run    *)

Raw_77_00 == <<"7", "7", ".", "0", "0">>
Raw_70_0 == <<"7", "0", ".", "0">>
Raw_50_5 == <<"5", "0", ".", "5">>
Raw_minus_5_5 == <<"-", "5", ".", "5">>
QuantityFormatTexts == {Raw_77_00, Raw_70_0, Raw_50_5, Raw_minus_5_5, <<"5">>, <<>>}

QuantityFormatRows ==
    {[sku |-> Raw_SKU001, name |-> Str_Widget, quantity |-> q,
      location |-> Str_A, last_counted |-> Raw_date] : q \in QuantityFormatTexts}

RECURSIVE QuantityFormatData(_)
QuantityFormatData(n) ==
    IF n = 0 THEN {<<>>}
    ELSE QuantityFormatData(n - 1)
         \cup {Append(f, r) : f \in {g \in QuantityFormatData(n - 1) : Len(g) = n - 1},
                              r \in QuantityFormatRows}

\* files with one data row at least
QuantityFormatFiles ==
    {Some(f) : f \in CsvFiles({Header_canonical, Header_mapped},
                              QuantityFormatData(MaxQuantityRows) \ {<<>>})}

\* a second snapshot with 77.00 in its only row
QuantityFormatFiles2 ==
    {Some(f) : f \in CsvFiles({Header_canonical},
                              {<<r>> : r \in {x \in QuantityFormatRows :
                                                 x.quantity = Raw_77_00}})}

InitQuantityFormat ==
    /\ pc = "load"
    /\ files \in [snapshot1 : QuantityFormatFiles, snapshot2 : QuantityFormatFiles2]
    /\ df1 = <<>> /\ df2 = <<>> /\ df1_norm = <<>> /\ df2_norm = <<>>
    /\ quality_issues = <<>>
    /\ df1_clean = <<>> /\ df2_clean = <<>>
    /\ results = <<>>
    /\ raised = None
    /\ mapped1 = <<>> /\ mapped2 = <<>> /\ missing1 = <<>> /\ missing2 = <<>>
    /\ normalizations = <<>>
    /\ report = None /\ output_file = None /\ exit_code = None
    /\ timestamp = None /\ outputs = <<>> /\ frames = None
    /\ float_qty1 = {} /\ float_qty2 = {}

\* df1, mapped1, missing1, float_qty1 = load_snapshot(snapshot_1), and the
\* same for snapshot_2
LoadSnapshots ==
    /\ pc = "load"
    /\ \E ret1 \in load_snapshot(files.snapshot1),
          ret2 \in load_snapshot(files.snapshot2) :
          /\ ret1.raised = None /\ ret2.raised = None
          /\ df1' = ret1.value[1] /\ mapped1' = ret1.value[2]
          /\ missing1' = ret1.value[3] /\ float_qty1' = ret1.value[4]
          /\ df2' = ret2.value[1] /\ mapped2' = ret2.value[2]
          /\ missing2' = ret2.value[3] /\ float_qty2' = ret2.value[4]
    /\ pc' = "loaded"
    /\ UNCHANGED <<frames, files, timestamp, outputs, df1_norm, df2_norm,
                   quality_issues, df1_clean, df2_clean, results, raised,
                   normalizations, report, output_file, exit_code>>

\* quality_issues = run_all_checks(df1, df2, mapped1, mapped2, missing1,
\* missing2): the battery has no parameter for the float maps
RunAllChecks ==
    /\ pc = "loaded"
    /\ LET ret == run_all_checks(df1, df2, mapped1, mapped2, missing1, missing2)
       IN /\ raised' = ret.raised
          /\ quality_issues' = ret.issues
          /\ pc' = IF ret.raised = None THEN "checked" ELSE "raised"
    /\ UNCHANGED <<float_qty1, float_qty2, frames, files, timestamp, outputs,
                   df1, df2, df1_norm, df2_norm, df1_clean, df2_clean, results,
                   mapped1, mapped2, missing1, missing2, normalizations,
                   report, output_file, exit_code>>

NextQuantityFormat ==
    \/ LoadSnapshots
    \/ RunAllChecks

SpecQuantityFormat == InitQuantityFormat /\ [][NextQuantityFormat]_vars

----------------------------------------------------------------------------
(* check_name_drift on pairs of raw tables                                  *)
(* SpecNameDrift: two raw tables, whose keys may repeat, are compared        *)

NameDriftRows ==
    {[sku |-> s, name |-> n, quantity |-> <<"5">>, location |-> Str_A,
      last_counted |-> Raw_date] :
        s \in {Raw_SKU001, Raw_sku001},
        n \in {Str_Widget, Raw_W_padded, Str_Gadget, <<>>}}

\* the tables read from files of one to MaxDriftRows data rows
NameDriftTables ==
    {read_csv(f) : f \in ListsOf(NameDriftRows, MaxDriftRows) \ {<<>>}}

InitNameDrift ==
    /\ pc = "check"
    /\ df1 \in NameDriftTables
    /\ df2 \in NameDriftTables
    /\ df1_norm = <<>> /\ df2_norm = <<>>
    /\ quality_issues = <<>>
    /\ df1_clean = <<>> /\ df2_clean = <<>>
    /\ results = <<>>
    /\ raised = None
    /\ mapped1 = <<>> /\ mapped2 = <<>> /\ missing1 = <<>> /\ missing2 = <<>>
    /\ normalizations = <<>>
    /\ report = None /\ output_file = None /\ exit_code = None
    /\ files = None /\ timestamp = None /\ outputs = <<>> /\ frames = None
    /\ float_qty1 = {} /\ float_qty2 = {}

\* issues = check_name_drift(df1, df2)
CheckNameDrift ==
    /\ pc = "check"
    /\ LET ret == check_name_drift(df1, df2)
       IN /\ raised' = ret.raised
          /\ quality_issues' = ret.issues
          /\ pc' = IF ret.raised = None THEN "checked" ELSE "raised"
    /\ UNCHANGED <<float_qty1, float_qty2, frames, files, timestamp, outputs,
                   df1, df2, df1_norm, df2_norm, df1_clean, df2_clean, results,
                   mapped1, mapped2, missing1, missing2, normalizations,
                   report, output_file, exit_code>>

NextNameDrift == CheckNameDrift

SpecNameDrift == InitNameDrift /\ [][NextNameDrift]_vars

----------------------------------------------------------------------------
(* check_date_format and check_date_regression on pairs of raw tables       *)
(* SpecDates: the format check runs on each snapshot, then the regression   *)
(* check on the pair                                                        *)

Raw_date_next == <<"2", "0", "2", "4", "-", "0", "1", "-", "0", "9">>
Raw_date_last_year == <<"2", "0", "2", "3", "-", "1", "2", "-", "3", "1">>
Raw_date_feb_30 == <<"2", "0", "2", "4", "-", "0", "2", "-", "3", "0">>
Raw_date_slashes == <<"0", "1", "/", "0", "8", "/", "2", "0", "2", "4">>
DateTexts ==
    {Raw_date, Raw_date_next, Raw_date_last_year, Raw_date_feb_30,
     Raw_date_slashes, <<>>}

DateRows ==
    {[sku |-> s, name |-> Str_Widget, quantity |-> <<"5">>, location |-> Str_A,
      last_counted |-> d] : s \in {Raw_SKU001, Raw_sku001}, d \in DateTexts}

\* the tables read from files of one to MaxDateRows data rows
DateTables == {read_csv(f) : f \in ListsOf(DateRows, MaxDateRows) \ {<<>>}}

InitDates ==
    /\ pc = "format"
    /\ df1 \in DateTables
    /\ df2 \in DateTables
    /\ df1_norm = <<>> /\ df2_norm = <<>>
    /\ quality_issues = <<>>
    /\ df1_clean = <<>> /\ df2_clean = <<>>
    /\ results = <<>>
    /\ raised = None
    /\ mapped1 = <<>> /\ mapped2 = <<>> /\ missing1 = <<>> /\ missing2 = <<>>
    /\ normalizations = <<>>
    /\ report = None /\ output_file = None /\ exit_code = None
    /\ files = None /\ timestamp = None /\ outputs = <<>> /\ frames = None
    /\ float_qty1 = {} /\ float_qty2 = {}

\* check_date_format(df1, "snapshot_1"), check_date_format(df2, "snapshot_2")
CheckDateFormat ==
    /\ pc = "format"
    /\ quality_issues' = check_date_format(df1, "snapshot_1").issues
                         \o check_date_format(df2, "snapshot_2").issues
    /\ pc' = "regression"
    /\ UNCHANGED <<float_qty1, float_qty2, frames, files, timestamp, outputs,
                   df1, df2, df1_norm, df2_norm, df1_clean, df2_clean, results,
                   raised, mapped1, mapped2, missing1, missing2, normalizations,
                   report, output_file, exit_code>>

\* check_date_regression(df1, df2)
CheckDateRegression ==
    /\ pc = "regression"
    /\ \E ret \in {check_date_regression(df1, df2)} :
          /\ raised' = ret.raised
          /\ quality_issues' = quality_issues \o ret.issues
          /\ pc' = IF ret.raised = None THEN "checked" ELSE "raised"
    /\ UNCHANGED <<float_qty1, float_qty2, frames, files, timestamp, outputs,
                   df1, df2, df1_norm, df2_norm, df1_clean, df2_clean, results,
                   mapped1, mapped2, missing1, missing2, normalizations,
                   report, output_file, exit_code>>

NextDates ==
    \/ CheckDateFormat
    \/ CheckDateRegression

SpecDates == InitDates /\ [][NextDates]_vars

----------------------------------------------------------------------------
(* check_negative_quantities and check_sku_format on one loaded snapshot    *)
(* SpecRowChecks: snapshot 1 is loaded; either detector is called on it     *)

RowCheckSkus == {<<>>, Raw_sku001, Raw_SKU001_padded, Raw_SKU001, Raw_ab1}
RowCheckQuantities ==
    {<<>>, <<"5">>, <<"0">>, <<"-", "5">>, <<"-", "5", ".", "5">>, Raw_abc}

RowCheckRows ==
    {[sku |-> s, name |-> Str_Widget, quantity |-> q, location |-> Str_A,
      last_counted |-> Raw_date] : s \in RowCheckSkus, q \in RowCheckQuantities}

RowCheckFiles ==
    CsvFiles({Header_canonical}, ListsOf(RowCheckRows, MaxCheckRows) \ {<<>>})

InitRowChecks ==
    /\ pc = "check"
    /\ files \in {[snapshot1 |-> Some(f), snapshot2 |-> None] : f \in RowCheckFiles}
    /\ df1 = read_csv(files.snapshot1[1].rows)
    /\ df2 = <<>> /\ df1_norm = <<>> /\ df2_norm = <<>>
    /\ quality_issues = <<>>
    /\ df1_clean = <<>> /\ df2_clean = <<>>
    /\ results = <<>>
    /\ raised = None
    /\ mapped1 = <<>> /\ mapped2 = <<>> /\ missing1 = <<>> /\ missing2 = <<>>
    /\ normalizations = <<>>
    /\ report = None /\ output_file = None /\ exit_code = None
    /\ timestamp = None /\ outputs = <<>> /\ frames = None
    /\ float_qty1 = {} /\ float_qty2 = {}

\* issues = check_negative_quantities(df1, "snapshot_1")
CheckNegativeQuantities ==
    /\ pc = "check"
    /\ \E ret \in {check_negative_quantities(df1, "snapshot_1")} :
          /\ raised' = ret.raised
          /\ quality_issues' = ret.issues
          /\ pc' = IF ret.raised = None THEN "negative_checked" ELSE "raised"
    /\ UNCHANGED <<float_qty1, float_qty2, frames, files, timestamp, outputs,
                   df1, df2, df1_norm, df2_norm, df1_clean, df2_clean, results,
                   mapped1, mapped2, missing1, missing2, normalizations,
                   report, output_file, exit_code>>

\* issues = check_sku_format(df1, "snapshot_1")
CheckSkuFormat ==
    /\ pc = "check"
    /\ \E ret \in {check_sku_format(df1, "snapshot_1")} :
          /\ raised' = ret.raised
          /\ quality_issues' = ret.issues
          /\ pc' = IF ret.raised = None THEN "sku_checked" ELSE "raised"
    /\ UNCHANGED <<float_qty1, float_qty2, frames, files, timestamp, outputs,
                   df1, df2, df1_norm, df2_norm, df1_clean, df2_clean, results,
                   mapped1, mapped2, missing1, missing2, normalizations,
                   report, output_file, exit_code>>

NextRowChecks ==
    \/ CheckNegativeQuantities
    \/ CheckSkuFormat

SpecRowChecks == InitRowChecks /\ [][NextRowChecks]_vars

----------------------------------------------------------------------------
(* The reconciler on tables whose quantities can be missing or no number    *)
(* SpecReconcileQuantities: reconcile is called on every pair of            *)
(* duplicate-free tables with such cells                                    *)

QuantityCells == {IntCell(5), IntCell(7), NaNCell, StrCell(Raw_abc)}

\* every duplicate-free table of at most n rows over two keys
RECURSIVE QuantityTables(_)
QuantityTables(n) ==
    IF n = 0 THEN {<<>>}
    ELSE LET shorter == QuantityTables(n - 1)
         IN shorter \cup
            {Append(t, [NormRow(k, Str_Widget, 0, Len(t)) EXCEPT !.quantity = c]) :
                t \in {u \in shorter : Len(u) = n - 1},
                k \in {<<Str_SKU001, Str_A>>, <<Str_SKU002, Str_A>>},
                c \in QuantityCells}

InitReconcileQuantities ==
    /\ pc = "reconcile"
    /\ df1 = <<>> /\ df2 = <<>> /\ df1_norm = <<>> /\ df2_norm = <<>>
    /\ quality_issues = <<>>
    /\ df1_clean \in {t \in QuantityTables(MaxQuantityTableRows) : NoRepeatedKey(t)}
    /\ df2_clean \in {t \in QuantityTables(MaxQuantityTableRows) : NoRepeatedKey(t)}
    /\ results = <<>>
    /\ raised = None
    /\ mapped1 = <<>> /\ mapped2 = <<>> /\ missing1 = <<>> /\ missing2 = <<>>
    /\ normalizations = <<>>
    /\ report = None /\ output_file = None /\ exit_code = None
    /\ files = None /\ timestamp = None /\ outputs = <<>> /\ frames = None
    /\ float_qty1 = {} /\ float_qty2 = {}

SpecReconcileQuantities == InitReconcileQuantities /\ [][NextReconcile]_vars

----------------------------------------------------------------------------
(* The column mapping of the loader and its detector                        *)
(* SpecColumns: a header is mapped by _apply_column_mapping and the mapped  *)
(* columns are given to check_column_names                                  *)

Padded(s) == <<" ">> \o s \o <<" ">>

\* a column as a header can write it: canonical or alternate, in lower case,
\* in upper case, or with surrounding whitespace
ColumnSpellings(canonical, alternate) ==
    {canonical, Padded(canonical), alternate, Upper(alternate), Padded(alternate)}

ColumnHeaders ==
    {<<F_sku, n, q, l, d>> :
        n \in ColumnSpellings(F_name, F_product_name),
        q \in ColumnSpellings(F_quantity, F_qty),
        l \in ColumnSpellings(F_location, F_warehouse),
        d \in ColumnSpellings(F_last_counted, F_updated_at)}

InitColumns ==
    /\ pc = "map"
    /\ files \in {[snapshot1 |-> Some([columns |-> h, rows |-> <<>>]),
                   snapshot2 |-> None] : h \in ColumnHeaders}
    /\ df1 = <<>> /\ df2 = <<>> /\ df1_norm = <<>> /\ df2_norm = <<>>
    /\ quality_issues = <<>>
    /\ df1_clean = <<>> /\ df2_clean = <<>>
    /\ results = <<>>
    /\ raised = None
    /\ mapped1 = <<>> /\ mapped2 = <<>> /\ missing1 = <<>> /\ missing2 = <<>>
    /\ normalizations = <<>>
    /\ report = None /\ output_file = None /\ exit_code = None
    /\ timestamp = None /\ outputs = <<>> /\ frames = None
    /\ float_qty1 = {} /\ float_qty2 = {}

\* df, mapped_columns = _apply_column_mapping(df); frames holds df.columns
ApplyColumnMapping ==
    /\ pc = "map"
    /\ \E mapping \in {_apply_column_mapping(files.snapshot1[1].columns)} :
          /\ frames' = [columns |-> mapping.columns]
          /\ mapped1' = mapping.mapped_columns
    /\ pc' = "mapped"
    /\ UNCHANGED <<float_qty1, float_qty2, files, timestamp, outputs,
                   df1, df2, df1_norm, df2_norm, df1_clean, df2_clean, results,
                   mapped2, missing1, missing2, normalizations, quality_issues,
                   raised, report, output_file, exit_code>>

\* issues = check_column_names(mapped_columns_1, "snapshot_1")
CheckColumnNames ==
    /\ pc = "mapped"
    /\ \E ret \in {check_column_names(mapped1, "snapshot_1")} :
          /\ raised' = ret.raised
          /\ quality_issues' = ret.issues
    /\ pc' = "columns_checked"
    /\ UNCHANGED <<float_qty1, float_qty2, frames, files, timestamp, outputs,
                   df1, df2, df1_norm, df2_norm, df1_clean, df2_clean, results,
                   mapped1, mapped2, missing1, missing2, normalizations,
                   report, output_file, exit_code>>

NextColumns ==
    \/ ApplyColumnMapping
    \/ CheckColumnNames

SpecColumns == InitColumns /\ [][NextColumns]_vars

----------------------------------------------------------------------------
(* The stages of main on snapshots in which a key can both repeat and be in *)
(* the other snapshot                                                       *)

CountRows ==
    {r \in FileRows : /\ r.name = Str_Widget
                      /\ r.quantity \in {<<"5">>, <<"7">>}
                      /\ r.sku = Raw_sku001 => r.quantity = <<"5">>}

\* the files of exactly n of these rows
RECURSIVE CountFiles(_)
CountFiles(n) ==
    IF n = 0 THEN {<<>>}
    ELSE {Append(f, r) : f \in CountFiles(n - 1), r \in CountRows}

InitCounts ==
    /\ pc = "normalize"
    /\ \E n1, n2 \in 1..MaxCountRows :
          /\ n1 + n2 <= MaxCountRows
          /\ df1 \in {read_csv(f) : f \in CountFiles(n1)}
          /\ df2 \in {read_csv(f) : f \in CountFiles(n2)}
    /\ mapped1 = <<>> /\ mapped2 = <<>>
    /\ missing1 = <<>> /\ missing2 = <<>>
    /\ df1_norm = <<>> /\ df2_norm = <<>> /\ normalizations = <<>>
    /\ quality_issues = <<>>
    /\ df1_clean = <<>> /\ df2_clean = <<>>
    /\ results = <<>>
    /\ raised = None
    /\ report = None /\ output_file = None /\ exit_code = None
    /\ files = None /\ timestamp = None /\ outputs = <<>> /\ frames = None
    /\ float_qty1 = {} /\ float_qty2 = {}

SpecCounts == InitCounts /\ [][NextPipeline]_vars

----------------------------------------------------------------------------
(* Claims about reconcile, checked under SpecReconcile                     *)

Reconciled == pc = "write"

InputKeys == Keys(df1_clean) \cup Keys(df2_clean)

ResultsWithKey(k) == {i \in 1..Len(results) : KeyOf(results[i]) = k}

RowOf(t, k) == CHOOSE row \in {t[i] : i \in 1..Len(t)} : KeyOf(row) = k

\* C1: reconcile of two duplicate-free tables returns exactly one result per
\* key of the union of the two tables' keys: no key is missing, none occurs
\* in two results, and no result has a key of neither table; also when one
\* or both tables are empty.
C1_OneResultPerUnionKey ==
    Reconciled =>
        /\ raised = None
        /\ \A k \in InputKeys : Cardinality(ResultsWithKey(k)) = 1
        /\ \A i \in 1..Len(results) : KeyOf(results[i]) \in InputKeys
        /\ Len(results) = Cardinality(InputKeys)

C1_Witness ==
    /\ Reconciled
    /\ Keys(df1_clean) \ Keys(df2_clean) # {}
    /\ Keys(df2_clean) \ Keys(df1_clean) # {}
    /\ Keys(df1_clean) \cap Keys(df2_clean) # {}
    /\ Len(results) = 3

\* C2: a key only in table 1 yields "removed" with old_quantity and old_name
\* from table 1 and new_quantity, new_name, quantity_delta absent; a key
\* only in table 2 yields "added" with new_quantity and new_name from
\* table 2 and old_quantity, old_name, quantity_delta absent; the same in
\* the shortcut branches (other table empty) and in the outer-join branch.
C2_OneSidedKeys ==
    Reconciled =>
        /\ \A k \in Keys(df1_clean) \ Keys(df2_clean) :
              \E i \in ResultsWithKey(k) :
                 results[i] = ReconciliationResult(k[1], k[2], "removed",
                                 Some(RowOf(df1_clean, k).quantity.v), None, None,
                                 Some(RowOf(df1_clean, k).name), None)
        /\ \A k \in Keys(df2_clean) \ Keys(df1_clean) :
              \E i \in ResultsWithKey(k) :
                 results[i] = ReconciliationResult(k[1], k[2], "added",
                                 None, Some(RowOf(df2_clean, k).quantity.v), None,
                                 None, Some(RowOf(df2_clean, k).name))

C2_Witness ==
    /\ Reconciled
    /\ df1_clean # <<>> /\ df2_clean # <<>>
    /\ \E i, j \in 1..Len(results) :
          /\ results[i].status = "removed" /\ results[i].new_quantity = None
          /\ results[j].status = "added" /\ results[j].old_quantity = None

\* C3: a key in both tables yields "unchanged" with quantity_delta 0 exactly
\* when the two quantities are equal and "quantity_changed" with
\* quantity_delta = new - old exactly when they differ; the old fields come
\* from table 1, the new ones from table 2; the names do not decide the
\* status.
C3_CommonKeys ==
    Reconciled =>
        \A k \in Keys(df1_clean) \cap Keys(df2_clean) :
            LET old == RowOf(df1_clean, k)
                new == RowOf(df2_clean, k)
            IN \E i \in ResultsWithKey(k) :
                  results[i] = ReconciliationResult(k[1], k[2],
                      IF old.quantity.v = new.quantity.v
                      THEN "unchanged" ELSE "quantity_changed",
                      Some(old.quantity.v), Some(new.quantity.v),
                      Some(new.quantity.v - old.quantity.v),
                      Some(old.name), Some(new.name))

C3_Witness ==
    /\ Reconciled
    /\ \E i, j \in 1..Len(results) :
          /\ results[i].status = "unchanged"
          /\ results[i].old_name # results[i].new_name
          /\ results[i].quantity_delta = Some(0)
          /\ results[j].status = "quantity_changed"
          /\ results[j].quantity_delta = Some(-2)

----------------------------------------------------------------------------
(* Claims about the stages of a run, checked under SpecPipeline            *)

Filtered == pc \in {"reconcile", "write", "summary", "done"}
Reported == pc \in {"summary", "done"}

\* how many rows of the table have the key
Occurrences(df, k) == Cardinality({i \in 1..Len(df) : KeyOf(df[i]) = k})

\* the rows of the table whose key the table has once
RECURSIVE OnceRows(_, _)
OnceRows(df, all) ==
    IF df = <<>> THEN <<>>
    ELSE (IF Occurrences(all, KeyOf(Head(df))) = 1 THEN <<Head(df)>> ELSE <<>>)
         \o OnceRows(Tail(df), all)

\* C4: duplicate filtering removes from a normalized snapshot exactly the
\* rows whose (sku, location) occurs more than once in it, every occurrence
\* (the first included), and keeps every other row unchanged and in order;
\* rows that share the sku but not the location are not duplicates.
C4_FilterRemovesAllOccurrences ==
    Filtered =>
        /\ df1_clean = OnceRows(df1_norm, df1_norm)
        /\ df2_clean = OnceRows(df2_norm, df2_norm)
        /\ \A i, j \in 1..Len(df1_norm) :
              (/\ i # j
               /\ df1_norm[i].sku = df1_norm[j].sku
               /\ df1_norm[i].location # df1_norm[j].location)
              => Len(df1_clean) = Len(df1_norm)

C4_Witness ==
    /\ Filtered
    /\ Len(df1_norm) = 2
    /\ KeyOf(df1_norm[1]) = KeyOf(df1_norm[2])
    /\ df1[1].sku # df1[2].sku
    /\ df1_clean = <<>>

ReportResults ==
    report[1].results.unchanged \o report[1].results.quantity_changed
    \o report[1].results.added \o report[1].results.removed

DuplicatedKeys(df) == {k \in Keys(df) : Occurrences(df, k) > 1}

\* C5: a key that occurs more than once within one normalized snapshot has
\* no reconciliation result in the report, whatever the other snapshot
\* holds for that key.
C5_NoResultForDuplicatedKey ==
    Reported =>
        \A k \in DuplicatedKeys(df1_norm) \cup DuplicatedKeys(df2_norm) :
            \A i \in 1..Len(ReportResults) : KeyOf(ReportResults[i]) # k

IsDuplicateIssue(issue, source_file) ==
    issue.issue_type = "duplicate_key" /\ issue.source_file = source_file

DuplicateIssueRows(source_file) ==
    {quality_issues[n].row_number[1] :
        n \in {m \in 1..Len(quality_issues) :
                  IsDuplicateIssue(quality_issues[m], source_file)}}

DuplicateIssueCount(source_file) ==
    Cardinality({m \in 1..Len(quality_issues) :
                    IsDuplicateIssue(quality_issues[m], source_file)})

\* C6: every row that duplicate filtering excludes from snapshot N is
\* reported by a duplicate_key issue of snapshot_N with the row's 1-indexed
\* number, so the number of such issues is snapshot_N_rows minus
\* snapshot_N_valid_rows.
C6_ExcludedRowsAreReported ==
    Filtered =>
        /\ \A i \in 1..Len(df1_norm) :
              Occurrences(df1_norm, KeyOf(df1_norm[i])) > 1
              => i \in DuplicateIssueRows("snapshot_1")
        /\ \A i \in 1..Len(df2_norm) :
              Occurrences(df2_norm, KeyOf(df2_norm[i])) > 1
              => i \in DuplicateIssueRows("snapshot_2")
        /\ DuplicateIssueCount("snapshot_1") = Len(df1) - Len(df1_clean)
        /\ DuplicateIssueCount("snapshot_2") = Len(df2) - Len(df2_clean)

\* C9: whatever the cells of two non-empty snapshots with all required
\* columns hold, no stage raises.
C9_NoStageRaises == raised = None /\ pc # "raised"

----------------------------------------------------------------------------
(* Claims about main, checked under SpecMain                               *)

Ended == pc \in {"done", "raised"}

LacksRequiredColumn(file) ==
    /\ file # None
    /\ file[1].columns # <<>>
    /\ _validate_required_columns(
           _apply_column_mapping(file[1].columns).columns) # {}

\* read_csv finds a header, or there is no file to read
HasHeader(file) == file = None \/ file[1].columns # <<>>

ValidFile(file) ==
    /\ file # None
    /\ file[1].rows # <<>>
    /\ _validate_required_columns(
           _apply_column_mapping(file[1].columns).columns) = {}

\* C7: when a snapshot file does not exist, or a snapshot lacks a required
\* column after mapping, main ends by returning 1: it raises nothing, runs
\* no later stage, writes no report and records no quality issue.
C7_FatalConditionReturnsOne ==
    (/\ Ended
     /\ HasHeader(files.snapshot1) /\ HasHeader(files.snapshot2)
     /\ \/ files.snapshot1 = None
        \/ files.snapshot2 = None
        \/ LacksRequiredColumn(files.snapshot1)
        \/ LacksRequiredColumn(files.snapshot2))
    => /\ exit_code = Some(1)
       /\ raised = None
       /\ report = None /\ output_file = None
       /\ quality_issues = <<>>
       /\ df1_norm = <<>> /\ df2_norm = <<>> /\ results = <<>>

\* C8: for two existing files with data rows and all required columns, main
\* ends by returning 0 with the report written, and raises nothing.
C8_ValidFilesReturnZero ==
    (Ended /\ ValidFile(files.snapshot1) /\ ValidFile(files.snapshot2))
    => /\ exit_code = Some(0)
       /\ raised = None
       /\ output_file # None

----------------------------------------------------------------------------
(* Claims about repeated runs, checked under SpecDeterminism               *)

----------------------------------------------------------------------------
(* Claims about the normalizer, checked under SpecNormalizer               *)

Normalized == pc \in {"normalized", "renormalized"}

\* C11: normalize_dataframe leaves the table it was given as it was, and
\* returns another object than the one it was given.
C11_InputNotMutated ==
    Normalized =>
        /\ frames.objects[frames.df] = df1
        /\ frames.result # frames.df

C11_Witness ==
    /\ pc = "normalized"
    /\ df1_norm # df1
    /\ frames.objects[frames.df] = df1
    /\ frames.objects[frames.result] = df1_norm

\* exactly SKU followed by exactly three digits
IsSkuThenThreeDigits(t) ==
    /\ Len(t) = 6
    /\ t[1] = "S" /\ t[2] = "K" /\ t[3] = "U"
    /\ \A i \in 4..6 : t[i] \in {"0", "1", "2", "3", "4", "5", "6", "7", "8", "9"}

\* C12: normalize_sku gives the empty string for a missing sku, the trimmed
\* and uppercased sku with a hyphen after its third character when that is
\* exactly SKU and three digits, and else the trimmed and uppercased sku.
C12_NormalizeSku ==
    Normalized =>
        \A i \in 1..Len(df1) :
            LET raw == df1[i].sku
                out == df1_norm[i].sku
                t == Upper(Strip(raw))
            IN IF raw = NaN THEN out = <<>>
               ELSE IF IsSkuThenThreeDigits(t)
               THEN out = <<"S", "K", "U", "-", t[4], t[5], t[6]>>
               ELSE out = t

C12_Witness ==
    /\ pc = "normalized"
    /\ \E i \in 1..Len(df1) :
          df1[i].sku = Raw_SKU001_padded /\ df1_norm[i].sku = Raw_SKU001
    /\ \E i \in 1..Len(df1) :
          df1[i].sku = Raw_SKU0001 /\ df1_norm[i].sku = Raw_SKU0001

\* C13: normalize_sku applied to its own result changes nothing.
C13_NormalizeSkuIdempotent ==
    pc = "renormalized" =>
        /\ Len(df2_norm) = Len(df1_norm)
        /\ \A i \in 1..Len(df1_norm) : df2_norm[i].sku = df1_norm[i].sku

C13_Witness ==
    /\ pc = "renormalized"
    /\ \E i \in 1..Len(df1) :
          /\ df1[i].sku = Raw_sku001
          /\ df1_norm[i].sku = Raw_SKU001
          /\ df2_norm[i].sku = Raw_SKU001
    /\ \E i \in 1..Len(df1) : df1[i].sku = NaN /\ df2_norm[i].sku = <<>>

\* the integer that x hundredths becomes when the fraction is dropped
DropsFraction(h, n) ==
    IF h >= 0 THEN 100 * n <= h /\ h < 100 * (n + 1)
    ELSE 100 * (n - 1) < h /\ h <= 100 * n

----------------------------------------------------------------------------
(* Claims about build_report, checked under SpecReporter                    *)

Built == report # None
TheReport == report[1]

\* how often x occurs in a list
RECURSIVE CountIn(_, _)
CountIn(list, x) ==
    IF list = <<>> THEN 0
    ELSE (IF Head(list) = x THEN 1 ELSE 0) + CountIn(Tail(list), x)

\* the position of a string among strings compared as Python compares them
SeverityRank(s) == CASE s = "error" -> 1 [] s = "info" -> 2 [] s = "warning" -> 3
RowOrZero(i) == IF i.row_number = None THEN 0 ELSE i.row_number[1]

\* (severity, issue_type, source_file, row_number or 0) of a is at most that of b
IssueKeyAtMost(a, b) ==
    LET ka == <<SeverityRank(a.severity), IndexIn(a.issue_type, IssueTypeOrder),
                IndexIn(a.source_file, SourceFileOrder), RowOrZero(a)>>
        kb == <<SeverityRank(b.severity), IndexIn(b.issue_type, IssueTypeOrder),
                IndexIn(b.source_file, SourceFileOrder), RowOrZero(b)>>
    IN \/ ka = kb
       \/ \E n \in 1..4 : /\ \A m \in 1..(n - 1) : ka[m] = kb[m]
                          /\ ka[n] < kb[n]

\* C15: the quality_issues of the report are in non-decreasing order of
\* (severity, issue_type, source_file, row_number or 0), with error < info <
\* warning, and hold exactly the issues passed in, each as often as passed
C15_IssuesSortedAndComplete ==
    Built =>
        LET sorted == TheReport.quality_issues
        IN /\ \A n \in 1..(Len(sorted) - 1) : IssueKeyAtMost(sorted[n], sorted[n + 1])
           /\ Len(sorted) = Len(quality_issues)
           /\ \A x \in ReporterIssues :
                 CountIn(sorted, x) = CountIn(quality_issues, x)

\* three issues passed out of order, one of them twice, two differing in the row only
C15_Witness ==
    /\ Built
    /\ Len(quality_issues) = 3
    /\ Len(outputs) = 1
    /\ TheReport.quality_issues # quality_issues
    /\ \E x \in ReporterIssues : CountIn(TheReport.quality_issues, x) = 2
    /\ \E n \in 1..2 :
          /\ TheReport.quality_issues[n].issue_type = "duplicate_key"
          /\ TheReport.quality_issues[n + 1].issue_type = "duplicate_key"
          /\ TheReport.quality_issues[n].row_number = Some(1)
          /\ TheReport.quality_issues[n + 1].row_number = Some(2)

\* C16: the quality_issues of the report do not depend on the order in which
\* the issues are handed over: two reports built from reorderings of the same
\* issues have the same quality_issues list, ties included
C16_IssueOrderIndependent ==
    \A m, n \in 1..Len(outputs) :
        outputs[m].quality_issues = outputs[n].quality_issues

Statuses == {"unchanged", "quantity_changed", "added", "removed"}
GroupOf(status) ==
    CASE status = "unchanged" -> TheReport.results.unchanged
      [] status = "quantity_changed" -> TheReport.results.quantity_changed
      [] status = "added" -> TheReport.results.added
      [] status = "removed" -> TheReport.results.removed

\* C17: each result is in the group of its status and in no other, as often as
\* it was passed, and each group is in ascending order of (sku, location)
C17_GroupsByStatusSorted ==
    Built =>
        /\ \A x \in ReporterResults, s \in Statuses :
              CountIn(GroupOf(s), x) =
                  (IF x.status = s THEN CountIn(results, x) ELSE 0)
        /\ \A s \in Statuses :
              /\ \A n \in 1..Len(GroupOf(s)) : GroupOf(s)[n] \in ReporterResults
              /\ \A n \in 1..(Len(GroupOf(s)) - 1) :
                    ~KeyLess(KeyOf(GroupOf(s)[n + 1]), KeyOf(GroupOf(s)[n]))

\* two unchanged results passed in descending order of location
C17_Witness ==
    /\ Built
    /\ Len(results) = 2
    /\ results[1].status = "unchanged" /\ results[2].status = "unchanged"
    /\ KeyLess(KeyOf(results[2]), KeyOf(results[1]))
    /\ TheReport.results.unchanged = <<results[2], results[1]>>

\* C18: the summary agrees with the body: the four counts are the sizes of the
\* groups, total_items_compared is their sum, quality_issues_count is the length
\* of quality_issues, and quality_issues_by_severity counts the issues of each
\* severity and sums to quality_issues_count
C18_SummaryAgreesWithBody ==
    Built =>
        LET summary == TheReport.summary
            by == summary.quality_issues_by_severity
            body == TheReport.quality_issues
        IN /\ \A s \in Statuses :
                 (CASE s = "unchanged" -> summary.unchanged
                    [] s = "quantity_changed" -> summary.quantity_changed
                    [] s = "added" -> summary.added
                    [] s = "removed" -> summary.removed) = Len(GroupOf(s))
           /\ summary.total_items_compared =
                 Len(GroupOf("unchanged")) + Len(GroupOf("quantity_changed"))
                 + Len(GroupOf("added")) + Len(GroupOf("removed"))
           /\ summary.quality_issues_count = Len(body)
           /\ by.error = Cardinality({n \in 1..Len(body) : body[n].severity = "error"})
           /\ by.warning = Cardinality({n \in 1..Len(body) : body[n].severity = "warning"})
           /\ by.info = Cardinality({n \in 1..Len(body) : body[n].severity = "info"})
           /\ by.error + by.warning + by.info = summary.quality_issues_count

\* results of two statuses and issues of all three severities
C18_Witness ==
    /\ Built
    /\ TheReport.summary.total_items_compared = 2
    /\ TheReport.summary.unchanged = 1
    /\ TheReport.summary.added = 1
    /\ TheReport.summary.quality_issues_by_severity =
           [error |-> 1, warning |-> 1, info |-> 1]

----------------------------------------------------------------------------
(* Claims about quantity_coerced, checked under SpecQuantityFormat          *)

QuantityChecked == pc = "checked"

\* the text before the decimal point
RECURSIVE IntegerPart(_)
IntegerPart(text) ==
    IF text = <<>> \/ Head(text) = "." THEN <<>>
    ELSE <<Head(text)>> \o IntegerPart(Tail(text))

HasQuantityColumn(file) ==
    \E n \in 1..Len(file.columns) : file.columns[n] \in {F_quantity, <<"Q", "t", "y">>}

\* the quantity_coerced issues of a snapshot for a row number
CoercedIssues(source_file, row_number) ==
    {n \in 1..Len(quality_issues) :
        /\ quality_issues[n].issue_type = "quantity_coerced"
        /\ quality_issues[n].source_file = source_file
        /\ quality_issues[n].row_number = row_number}

QuantityFormatHolds(file, source_file, float_qty_rows) ==
    /\ \A n \in 1..Len(quality_issues) :
          (/\ quality_issues[n].issue_type = "quantity_coerced"
           /\ quality_issues[n].source_file = source_file)
          => /\ HasQuantityColumn(file)
             /\ quality_issues[n].row_number \in {Some(i) : i \in 1..Len(file.rows)}
    /\ HasQuantityColumn(file) =>
          \A i \in 1..Len(file.rows) :
              LET text == file.rows[i].quantity
                  found == CoercedIssues(source_file, Some(i))
              IN IF IsIn(".", text)
                 THEN /\ <<i - 1, text>> \in float_qty_rows
                      /\ Cardinality(found) = 1
                      /\ \A n \in found :
                            /\ quality_issues[n].severity = "warning"
                            /\ quality_issues[n].original_value = Some(text)
                            /\ quality_issues[n].normalized_value =
                                   Some(IntegerPart(text))
                 ELSE /\ \A e \in float_qty_rows : e[1] # i - 1
                      /\ found = {}

\* C19: for each row whose quantity was written with a decimal point, which
\* the float map of the loader records under the row index, the checks emit
\* exactly one quantity_coerced warning for that snapshot with row_number =
\* index + 1, original_value the text as written and normalized_value the
\* truncated integer as text; no other row has such an issue, and a table
\* without a quantity column has none
C19_QuantityCoercedPerFloatRow ==
    QuantityChecked =>
        /\ QuantityFormatHolds(files.snapshot1[1], "snapshot_1", float_qty1)
        /\ QuantityFormatHolds(files.snapshot2[1], "snapshot_2", float_qty2)

----------------------------------------------------------------------------
(* Claims about check_name_drift, checked under SpecNameDrift               *)

DriftChecked == pc = "checked"

\* the name of a row as text, trimmed; a missing name reads nan
TrimmedName(row) == Strip(Str(row.name))

DriftKeys == {KeyOf(df1[i]) : i \in 1..Len(df1)} \cup {KeyOf(df2[j]) : j \in 1..Len(df2)}
KeyText(k) == k[1] \o <<"@">> \o k[2]

\* the issues reported for a composite key
DriftIssuesOf(k) ==
    {n \in 1..Len(quality_issues) : quality_issues[n].description.args[1] = KeyText(k)}

\* the pairs of a row of each snapshot with the key whose trimmed names differ
DriftPairs(k) ==
    {p \in (1..Len(df1)) \X (1..Len(df2)) :
        /\ KeyOf(df1[p[1]]) = k /\ KeyOf(df2[p[2]]) = k
        /\ TrimmedName(df1[p[1]]) # TrimmedName(df2[p[2]])}

IsNameDriftWarning(issue) ==
    /\ issue.issue_type = "name_drift" /\ issue.severity = "warning"
    /\ issue.source_file = "both" /\ issue.row_number = None

\* C20 as stated: exactly one name_drift warning (source_file both, no row
\* number, the old and the new trimmed name) for each composite key present in
\* both snapshots whose trimmed names differ, and none for any other key
C20_OneDriftIssuePerKey ==
    DriftChecked =>
        /\ \A n \in 1..Len(quality_issues) : IsNameDriftWarning(quality_issues[n])
        /\ \A k \in DriftKeys :
              IF DriftPairs(k) # {}
              THEN /\ Cardinality(DriftIssuesOf(k)) = 1
                   /\ \A n \in DriftIssuesOf(k) : \E p \in DriftPairs(k) :
                         /\ quality_issues[n].original_value = Some(TrimmedName(df1[p[1]]))
                         /\ quality_issues[n].normalized_value = Some(TrimmedName(df2[p[2]]))
              ELSE DriftIssuesOf(k) = {}

\* C20 amended: exactly one name_drift warning (source_file both, no row
\* number, the old and the new trimmed name) for each pair of a row of
\* snapshot 1 and a row of snapshot 2 that have the same composite key and
\* whose trimmed names differ, and none for any other key
C20_OneDriftIssuePerRowPair ==
    DriftChecked =>
        /\ \A n \in 1..Len(quality_issues) : IsNameDriftWarning(quality_issues[n])
        /\ \A k \in DriftKeys :
              /\ Cardinality(DriftIssuesOf(k)) = Cardinality(DriftPairs(k))
              /\ \A p \in DriftPairs(k) :
                    Cardinality({n \in DriftIssuesOf(k) :
                        /\ quality_issues[n].original_value = Some(TrimmedName(df1[p[1]]))
                        /\ quality_issues[n].normalized_value = Some(TrimmedName(df2[p[2]]))})
                    = Cardinality({q \in DriftPairs(k) :
                        /\ TrimmedName(df1[q[1]]) = TrimmedName(df1[p[1]])
                        /\ TrimmedName(df2[q[2]]) = TrimmedName(df2[p[2]])})

\* a key twice in snapshot 1 with the name W, once in snapshot 2 with the
\* name G: two warnings, one for each pair of rows
C20_Witness ==
    /\ DriftChecked
    /\ Len(df1) = 2 /\ Len(df2) = 1
    /\ KeyOf(df1[1]) = KeyOf(df2[1]) /\ KeyOf(df1[2]) = KeyOf(df2[1])
    /\ df1[1].name = Str_Widget /\ df1[2].name = Raw_W_padded
    /\ df2[1].name = Str_Gadget
    /\ Len(quality_issues) = 2
    /\ \A n \in 1..2 :
          /\ quality_issues[n].original_value = Some(Str_Widget)
          /\ quality_issues[n].normalized_value = Some(Str_Gadget)

----------------------------------------------------------------------------
(* Claims about the date checks, checked under SpecDates                    *)

DatesChecked == pc = "checked"

\* the last_counted of a row as text, trimmed
DateText(row) == Strip(Str(row.last_counted))

\* yyyy-mm-dd with a month of the calendar and a day of that month
IsCalendarDate(t) ==
    /\ Len(t) = 10 /\ t[5] = "-" /\ t[8] = "-"
    /\ \A n \in {1, 2, 3, 4, 6, 7, 9, 10} : IsDigit(t[n])
    /\ LET y == DigitsToNat(SubSeq(t, 1, 4))
           m == DigitsToNat(SubSeq(t, 6, 7))
           d == DigitsToNat(SubSeq(t, 9, 10))
       IN /\ y >= 1 /\ m >= 1 /\ m <= 12 /\ d >= 1
          /\ d <= (CASE m \in {1, 3, 5, 7, 8, 10, 12} -> 31
                     [] m \in {4, 6, 9, 11} -> 30
                     [] OTHER -> IF (y % 4 = 0 /\ y % 100 # 0) \/ y % 400 = 0
                                 THEN 29 ELSE 28)

\* the days of a calendar date in the order of time
DateNumber(t) ==
    10000 * DigitsToNat(SubSeq(t, 1, 4)) + 100 * DigitsToNat(SubSeq(t, 6, 7))
    + DigitsToNat(SubSeq(t, 9, 10))

\* the pairs of a row of each snapshot with the key k
KeyPairs(k) ==
    {p \in (1..Len(df1)) \X (1..Len(df2)) :
        KeyOf(df1[p[1]]) = k /\ KeyOf(df2[p[2]]) = k}

\* those with two calendar dates of which the second is the earlier
RegressedPairs(k) ==
    {p \in KeyPairs(k) :
        /\ IsCalendarDate(DateText(df1[p[1]]))
        /\ IsCalendarDate(DateText(df2[p[2]]))
        /\ DateNumber(DateText(df2[p[2]])) < DateNumber(DateText(df1[p[1]]))}

RegressionIssuesOf(k) ==
    {n \in 1..Len(quality_issues) :
        /\ quality_issues[n].issue_type = "date_regression"
        /\ quality_issues[n].description.args[1] = KeyText(k)}

\* C21: check_date_regression raises nothing and emits a date_regression
\* warning (source_file both, original_value the date of snapshot 1,
\* normalized_value the date of snapshot 2) for a composite key if and only if
\* the key is in both snapshots with two calendar dates of which the second is
\* strictly earlier; equal or later dates, keys of one snapshot and dates that
\* do not parse give no issue
C21_DateRegressionIff ==
    /\ pc # "raised"
    /\ DatesChecked =>
         \A k \in DriftKeys :
            /\ (RegressionIssuesOf(k) # {}) <=> (RegressedPairs(k) # {})
            /\ \A n \in RegressionIssuesOf(k) :
                  /\ quality_issues[n].severity = "warning"
                  /\ quality_issues[n].source_file = "both"
                  /\ quality_issues[n].row_number = None
                  /\ \E p \in RegressedPairs(k) :
                        /\ quality_issues[n].original_value = Some(DateText(df1[p[1]]))
                        /\ quality_issues[n].normalized_value = Some(DateText(df2[p[2]]))

\* two keys in both snapshots: the first from 2024-01-08 back to 2023-12-31,
\* the second from 2024-01-08 to 2024-02-30, which is no date; one warning
C21_Witness ==
    /\ DatesChecked
    /\ Len(df1) = 2 /\ Len(df2) = 2
    /\ KeyOf(df1[1]) # KeyOf(df1[2])
    /\ KeyOf(df2[1]) = KeyOf(df1[1]) /\ KeyOf(df2[2]) = KeyOf(df1[2])
    /\ df1[1].last_counted = Raw_date /\ df2[1].last_counted = Raw_date_last_year
    /\ df1[2].last_counted = Raw_date /\ df2[2].last_counted = Raw_date_feb_30
    /\ Cardinality(RegressionIssuesOf(KeyOf(df1[1]))) = 1
    /\ RegressionIssuesOf(KeyOf(df1[2])) = {}

\* the date_format_inconsistent issues of a snapshot for a row number
FormatIssuesOf(source_file, row_number) ==
    {n \in 1..Len(quality_issues) :
        /\ quality_issues[n].issue_type = "date_format_inconsistent"
        /\ quality_issues[n].source_file = source_file
        /\ quality_issues[n].row_number = Some(row_number)}

\* C26: every last_counted that the regression check skips, being no calendar
\* date, in a row whose key is in both snapshots, has a
\* date_format_inconsistent warning for its snapshot and row
C26_SkippedDatesAreFlagged ==
    DatesChecked =>
        \A k \in DriftKeys : \A p \in KeyPairs(k) :
            /\ ~IsCalendarDate(DateText(df1[p[1]]))
                  => FormatIssuesOf("snapshot_1", p[1]) # {}
            /\ ~IsCalendarDate(DateText(df2[p[2]]))
                  => FormatIssuesOf("snapshot_2", p[2]) # {}

----------------------------------------------------------------------------
(* Claims about the per-row checks, checked under SpecRowChecks             *)

\* the issues of a type for a row number of snapshot 1
RowIssuesOf(issue_type, row_number) ==
    {n \in 1..Len(quality_issues) :
        /\ quality_issues[n].issue_type = issue_type
        /\ quality_issues[n].source_file = "snapshot_1"
        /\ quality_issues[n].row_number = Some(row_number)}

\* the quantity written in data row i of snapshot 1
WrittenQuantity(i) == files.snapshot1[1].rows[i].quantity

IsWrittenNegative(text) ==
    ParseDecimal(text) # None /\ ParseDecimal(text)[1] < 0

\* C22: check_negative_quantities emits exactly one negative_quantity error
\* for each row whose quantity is below zero and none for the other rows; the
\* issue has the snapshot as source_file, the field quantity, the 1-indexed
\* row number and, as original_value, the quantity as written, whatever the
\* other rows of the column hold
C22_NegativeQuantityPerRow ==
    pc = "negative_checked" =>
        /\ Len(quality_issues) =
              Cardinality({i \in 1..Len(df1) : IsWrittenNegative(WrittenQuantity(i))})
        /\ \A i \in 1..Len(df1) :
              IF IsWrittenNegative(WrittenQuantity(i))
              THEN /\ Cardinality(RowIssuesOf("negative_quantity", i)) = 1
                   /\ \A n \in RowIssuesOf("negative_quantity", i) :
                         /\ quality_issues[n].severity = "error"
                         /\ quality_issues[n].field = Some(F_quantity)
                         /\ quality_issues[n].original_value = Some(WrittenQuantity(i))
              ELSE RowIssuesOf("negative_quantity", i) = {}

\* C23: check_sku_format emits exactly one sku_format_normalized warning for a
\* row if and only if the sku that the normalizer writes for the row differs
\* from the raw sku of the row (a missing sku included); the issue has the raw
\* sku as original_value and the normalizer's sku as normalized_value
C23_SkuIssueIffNormalizerChanges ==
    pc = "sku_checked" =>
        \A i \in 1..Len(df1) :
            LET raw == files.snapshot1[1].rows[i].sku
                written == normalize_sku(df1[i].sku)
                found == RowIssuesOf("sku_format_normalized", i)
            IN IF df1[i].sku = NaN \/ written # raw
               THEN /\ Cardinality(found) = 1
                    /\ \A n \in found :
                          /\ quality_issues[n].severity = "warning"
                          /\ quality_issues[n].original_value = Some(raw)
                          /\ quality_issues[n].normalized_value = Some(written)
               ELSE found = {}

----------------------------------------------------------------------------
(* Claims about reconcile and quantities that are missing or no number,     *)
(* checked under SpecReconcileQuantities                                    *)

BothKnown(r) == r.old_quantity # None /\ r.new_quantity # None

\* C24: every result of reconcile has old_quantity or new_quantity present,
\* has a quantity_delta only when both are present, then equal to
\* new_quantity - old_quantity, and is not unchanged with quantity_delta 0
\* unless both quantities are known
C24_QuantitiesAndDelta ==
    Reconciled =>
        \A i \in 1..Len(results) :
            LET r == results[i]
            IN /\ r.old_quantity # None \/ r.new_quantity # None
               /\ r.quantity_delta # None =>
                     /\ BothKnown(r)
                     /\ r.quantity_delta[1] = r.new_quantity[1] - r.old_quantity[1]
               /\ ~BothKnown(r) =>
                     ~(r.status = "unchanged" /\ r.quantity_delta = Some(0))

\* C25: reconcile never raises on a quantity that is missing or no number, in
\* the branch of an empty table 1, of an empty table 2 and of the outer join:
\* the key gets its result, with the quantity absent
C25_NoRaiseOnBadQuantity ==
    /\ pc # "raised"
    /\ Reconciled =>
          /\ \A k \in InputKeys : Cardinality(ResultsWithKey(k)) = 1
          /\ \A i \in 1..Len(results) :
                /\ (KeyOf(results[i]) \in Keys(df1_clean)
                    /\ IntRaises(RowOf(df1_clean, KeyOf(results[i])).quantity))
                      => results[i].old_quantity = None
                /\ (KeyOf(results[i]) \in Keys(df2_clean)
                    /\ IntRaises(RowOf(df2_clean, KeyOf(results[i])).quantity))
                      => results[i].new_quantity = None

----------------------------------------------------------------------------
(* Claims about the column mapping, checked under SpecColumns               *)

ColumnsChecked == pc = "columns_checked"

\* the header matches an alternate name, whatever its case and its
\* surrounding whitespace
IsAlternateHeader(col) ==
    Strip(Lower(col)) \in {F_product_name, F_qty, F_warehouse, F_updated_at}

CanonicalOfAlternate(col) ==
    LET alt == Strip(Lower(col))
    IN CASE alt = F_product_name -> F_name
         [] alt = F_qty -> F_quantity
         [] alt = F_warehouse -> F_location
         [] alt = F_updated_at -> F_last_counted

ColumnIssuesOf(col) ==
    {i \in 1..Len(quality_issues) :
        /\ quality_issues[i].issue_type = "column_name_mismatch"
        /\ quality_issues[i].original_value = Some(col)}

\* C27: each header that matches an alternate name, whatever its case and its
\* surrounding whitespace, is renamed to the canonical name, is listed among
\* the mapped columns and gets exactly one column_name_mismatch info issue
\* from the header as written to the canonical name; no other column gets one
C27_MappedHeaderGetsOneIssue ==
    ColumnsChecked =>
        LET header == files.snapshot1[1].columns
        IN /\ \A c \in 1..Len(header) :
                IF IsAlternateHeader(header[c])
                THEN /\ frames.columns[c] = CanonicalOfAlternate(header[c])
                     /\ IsIn(header[c], mapped1)
                     /\ Cardinality(ColumnIssuesOf(header[c])) = 1
                     /\ \A i \in ColumnIssuesOf(header[c]) :
                           /\ quality_issues[i].severity = "info"
                           /\ quality_issues[i].normalized_value =
                                 Some(CanonicalOfAlternate(header[c]))
                ELSE ColumnIssuesOf(header[c]) = {}
           /\ \A i \in 1..Len(quality_issues) :
                quality_issues[i].issue_type = "column_name_mismatch" =>
                    \E c \in 1..Len(header) :
                        /\ IsAlternateHeader(header[c])
                        /\ quality_issues[i].original_value = Some(header[c])

----------------------------------------------------------------------------
(* Claims about one report of the pipeline, checked under SpecPipeline and  *)
(* SpecCounts                                                               *)

ReportWritten == report # None /\ output_file # None

\* the results of the report whose key is in both snapshots
ComparedResults ==
    {TheReport.results.unchanged[i] : i \in 1..Len(TheReport.results.unchanged)}
    \cup
    {TheReport.results.quantity_changed[i] :
        i \in 1..Len(TheReport.results.quantity_changed)}

\* the normalized keys of the raw rows that the issue names as key_value
IssueKeys(issue) ==
    {KeyOf(df1_norm[i]) :
        i \in {j \in 1..Len(df1) : KeyValue(df1[j]) = issue.description.args[1]}}
    \cup
    {KeyOf(df2_norm[i]) :
        i \in {j \in 1..Len(df2) : KeyValue(df2[j]) = issue.description.args[1]}}

ReportedNameDrifts ==
    {n \in 1..Len(TheReport.quality_issues) :
        TheReport.quality_issues[n].issue_type = "name_drift"}

\* C28: in one report, each unchanged or quantity_changed result whose
\* old_name and new_name differ has a name_drift issue for its key, and each
\* name_drift issue is about the key of an unchanged or quantity_changed
\* result
C28_NameDriftAgreesWithResults ==
    ReportWritten =>
        /\ \A r \in ComparedResults :
              r.old_name # r.new_name =>
                  \E n \in ReportedNameDrifts :
                      KeyOf(r) \in IssueKeys(TheReport.quality_issues[n])
        /\ \A n \in ReportedNameDrifts :
              \E r \in ComparedResults :
                  KeyOf(r) \in IssueKeys(TheReport.quality_issues[n])

----------------------------------------------------------------------------
(* Claims about main and a snapshot without data rows, checked under        *)
(* SpecMain                                                                 *)

\* the snapshot exists and has a header and no data rows
HeaderOnly(file) ==
    file # None /\ file[1].columns # <<>> /\ file[1].rows = <<>>

AllColumnsMissing(ret) ==
    /\ ret.raised = None
    /\ ret.value[1] = <<>>
    /\ {ret.value[3][i] : i \in 1..Len(ret.value[3])} = REQUIRED_COLUMNS

C30_CountsAgree ==
    ReportWritten =>
        LET m == TheReport.metadata
            s == TheReport.summary
            both == s.unchanged + s.quantity_changed
        IN /\ m.snapshot_1_valid_rows <= m.snapshot_1_rows
           /\ m.snapshot_2_valid_rows <= m.snapshot_2_rows
           /\ both + s.removed = m.snapshot_1_valid_rows
           /\ both + s.added = m.snapshot_2_valid_rows
           /\ s.total_items_compared =
                 m.snapshot_1_valid_rows + m.snapshot_2_valid_rows - both

C30_Witness ==
    /\ ReportWritten
    /\ TheReport.metadata.snapshot_1_rows = 3
    /\ TheReport.metadata.snapshot_1_valid_rows = 1
    /\ TheReport.metadata.snapshot_2_valid_rows = 1
    /\ TheReport.summary.quantity_changed = 1
    /\ TheReport.summary.total_items_compared = 1

====
